---- MODULE Spec2Model ----
(***************************************************************************)
(* State-machine model of uqfacedetect (src/facedetect.c): the acceptor    *)
(* (new_connection), the per-connection workers (task_executor and the     *)
(* functions it calls), the SIGHUP statistics reporter (sighup_listener),  *)
(* the three mutexes, the admission semaphore, the shared scratch file and *)
(* the statistics record.                                                  *)
(*                                                                         *)
(* Bytes are naturals 0..255.  A uint32_t is a pair <<hi, lo>> of 16-bit   *)
(* halves, so that the full 32-bit range is representable.                 *)
(* Every worker keeps a trace of what it did on its socket; the claims are *)
(* stated over these traces and over the shared state.                     *)
(***************************************************************************)
EXTENDS Integers, Sequences, FiniteSets, TLC

(* ------------------------------ bounds --------------------------------- *)
\* connections the clients open during a run
NumConns == 2
\* requests a client sends on one connection before it closes: a client that
\* may send any bytes, and a client that frames its requests correctly
MaxReqs == 2
FramedReqs == 1
\* requests a client sends on one connection when it repeats requests
RepeatReqs == 3
\* largest connectionLimit given on the command line
MaxLimit == 1
\* SIGHUPs delivered during a run
MaxSighups == 2

(* ------------------------- program constants --------------------------- *)
ERROR_OPERATION == 3
FOUR_BYTES == 4
IMAGE_OPERATION == 2

(* ------------------------- 32-bit arithmetic --------------------------- *)
HALF == 256 * 256

U32(n) == <<n \div HALF, n % HALF>>

UINT32_MAX == <<HALF - 1, HALF - 1>>

\* #define PREFIX 0x23107231U
PREFIX == <<8976, 29233>>

Gt32(a, b) == a[1] > b[1] \/ (a[1] = b[1] /\ a[2] > b[2])

Inc32(u) == IF u[2] = HALF - 1 THEN <<(u[1] + 1) % HALF, 0>> ELSE <<u[1], u[2] + 1>>

Dec32(u) == IF u[2] = 0 THEN <<(u[1] + HALF - 1) % HALF, HALF - 1>> ELSE <<u[1], u[2] - 1>>

\* le32toh on a little-endian host reading four bytes from the wire
le32toh(b) == <<b[4] * 256 + b[3], b[2] * 256 + b[1]>>

\* htole32: the four bytes put on the wire, least significant first
htole32(u) == <<u[2] % 256, u[2] \div 256, u[1] % 256, u[1] \div 256>>

\* sizeof of a string literal counts the terminating NUL
sizeof(s) == Len(s) + 1

(* ---------------------- threads and mutex owners ----------------------- *)
Workers == 1..NumConns
Acceptor == NumConns + 1
Reporter == NumConns + 2
\* an unlocked pthread mutex
Free == 0

VARIABLES
  connectionLimit,  \* params.connectionLimit
  maxSize,          \* params.maxSize after parse_command_line
  sem,              \* value of *limitConnections (unused when connectionLimit = 0)
  stats,            \* Statistics counters
  statsLock, fileLock, cascadeLock,   \* owner of each mutex, or Free
  scratch,          \* content of /tmp/imagefile.jpg
  accPc,            \* position of the acceptor in new_connection
  accepted,         \* connections accept() has returned so far
  wk,               \* per worker: position and locals of task_executor
  trace,            \* per worker: what it did on its socket, in order
  repPc,            \* position of the reporter in sighup_listener
  sighups,          \* SIGHUPs sent so far
  pending,          \* a SIGHUP is pending for sigwait
  report,           \* what the reporter printed so far: one row of counters per report
  client,           \* uqfaceclient: position in main, parameters, inputs and request
  boot,             \* main of the server up to new_connection: argv, params, exit status
  peer              \* per connection: "open", "stalled" while the client does not
                    \* read, "reset" once the client is gone

vars == <<connectionLimit, maxSize, sem, stats, statsLock, fileLock, cascadeLock,
          scratch, accPc, accepted, wk, trace, repPc, sighups, pending, report, client,
          boot, peer>>

(* ------------------------------ wire data ------------------------------ *)
Magic == <<49, 114, 16, 35>>

\* A client profile bounds what the clients of a run put on the wire: reqs is
\* the number of requests on a connection before the client closes, each other
\* field is a set of arrivals: the bytes a read meets before it is satisfied or
\* the peer closes (k < wanted bytes and then EOF, or all wanted bytes).
\* image bytes: a leading 0 is not an image, 1 is background, 2 is a face.
AnyClient ==
  [prefix |-> {<<>>, <<49>>, <<0, 0>>, <<49, 114, 16>>, Magic, <<0, 0, 0, 0>>,
               <<49, 114, 16, 0>>},
   operation |-> {<<>>, <<0>>, <<1>>, <<2>>, <<255>>},
   size |-> {<<>>, <<1, 0>>, <<0, 0, 0, 0>>, <<1, 0, 0, 0>>, <<2, 0, 0, 0>>,
             <<3, 0, 0, 0>>, <<255, 255, 255, 255>>},
   image |-> {<<>>, <<0>>, <<1>>, <<2>>, <<2, 2>>},
   image2 |-> {<<>>, <<0>>, <<1>>, <<1, 1>>},
   reqs |-> MaxReqs]

\* clients that frame their requests correctly, or send a wrong prefix
FramedClient ==
  [prefix |-> {<<>>, Magic, <<0, 0, 0, 0>>},
   operation |-> {<<0>>, <<1>>},
   size |-> {<<1, 0, 0, 0>>},
   image |-> {<<1>>, <<2>>},
   image2 |-> {<<1>>},
   reqs |-> FramedReqs]

\* clients that send up to RepeatReqs requests on a connection, each a request
\* on an image with a face, or a wrong prefix
RepeatClient ==
  [prefix |-> {<<>>, Magic, <<0, 0, 0, 0>>},
   operation |-> {<<0>>, <<1>>},
   size |-> {<<1, 0, 0, 0>>, <<2, 0, 0, 0>>},
   image |-> {<<2>>, <<1, 2>>},
   image2 |-> {<<1>>},
   reqs |-> RepeatReqs]

\* what a read of n payload bytes can meet among the images: all n bytes, or
\* fewer and then EOF
PayloadArrivals(images, n) ==
  {a \in images : U32(Len(a)) = n \/ Gt32(n, U32(Len(a)))}

\* read_bytes: totalSize when that many bytes arrive before EOF, else -1
read_bytes(arrival, totalSize) ==
  IF Len(arrival) = totalSize THEN totalSize ELSE -1

\* the same for a 32-bit count, as the payload reads use it
read_bytes32(arrival, totalSize) ==
  IF U32(Len(arrival)) = totalSize THEN totalSize ELSE <<-1, -1>>

(* ------------------------------ events --------------------------------- *)
Ev(ev, tag, hdr, text, bytes) ==
  [ev |-> ev, tag |-> tag, hdr |-> hdr, text |-> text, bytes |-> bytes]

ReadEv(field, arrival) == Ev("read", field, <<>>, "", arrival)

\* send_output: prefix, operation byte, length, payload
send_output(operation, text, bytes, size) ==
  Ev("send", "frame", htole32(PREFIX) \o <<operation>> \o htole32(size), text, bytes)

\* send_prefix_file: the canned response file, verbatim
send_prefix_file == Ev("send", "file", <<>>, "", <<>>)

ShutdownEv == Ev("shutdown", "", <<>>, "", <<>>)

CloseEv == Ev("close", "", <<>>, "", <<>>)

FaultEv(what) == Ev("fault", what, <<>>, "", <<>>)

ErrorReply(text, size) ==
  <<send_output(ERROR_OPERATION, text, <<>>, size), ShutdownEv, CloseEv>>

invalid_message == ErrorReply("invalid message", U32(sizeof("invalid message") - 1))

wrong_operation ==
  ErrorReply("invalid operation type", U32(sizeof("invalid operation type") - 1))

invalid_image == ErrorReply("invalid image", U32(sizeof("invalid image") - 1))

\* no_faces leaving the socket open after the shutdown
no_faces_no_close ==
  <<send_output(ERROR_OPERATION, "no faces detected in image", <<>>,
                U32(sizeof("no faces detected in image") - 1)), ShutdownEv>>

no_faces ==
  ErrorReply("no faces detected in image", U32(sizeof("no faces detected in image") - 1))

zero_image == ErrorReply("image is 0 bytes", U32(sizeof("image is 0 bytes") - 1))

image_too_large == ErrorReply("image too large", U32(sizeof("image too large") - 1))

\* check_image_size refusing an image of exactly maxSize bytes (>= for >)
check_image_size_ge(imageSize) ==
  IF imageSize = U32(0) THEN zero_image
  ELSE IF maxSize # U32(0) /\ (Gt32(imageSize, maxSize) \/ imageSize = maxSize)
    THEN image_too_large
  ELSE <<>>

\* check_image_size comparing the two sizes as signed 32-bit integers
check_image_size_signed(imageSize) ==
  LET int32(u) == IF u[1] >= HALF \div 2 THEN <<u[1] - HALF, u[2]>> ELSE u IN
    IF imageSize = U32(0) THEN zero_image
    ELSE IF maxSize # U32(0) /\ Gt32(int32(imageSize), int32(maxSize)) THEN image_too_large
    ELSE <<>>

\* check_image_size: the reply it sends, <<>> when the size is accepted
check_image_size(imageSize) ==
  IF imageSize = U32(0) THEN zero_image
  ELSE IF maxSize # U32(0) /\ Gt32(imageSize, maxSize) THEN image_too_large
  ELSE <<>>

(* --------------------------- codec, detector --------------------------- *)
\* cvLoadImage on the scratch file: NULL (<<>>) unless the bytes are an image
cvLoadImage(file) == IF Len(file) = 0 \/ file[1] = 0 THEN <<>> ELSE file

\* cvSaveImage: the encoded bytes of a frame
cvSaveImage(frame) == frame

RECURSIVE FacePositions(_, _)
FacePositions(frame, from) ==
  IF from > Len(frame) THEN <<>>
  ELSE IF frame[from] = 2 THEN <<from>> \o FacePositions(frame, from + 1)
  ELSE FacePositions(frame, from + 1)

\* cvHaarDetectObjects with the face cascade: the positions of the faces
cvHaarDetectFaces(grey) == FacePositions(grey, 1)

\* cvEllipse around one face
cvEllipse(frame, face) == [frame EXCEPT ![face] = 3]

RECURSIVE replace_face(_, _, _, _)
\* replace_face: the replacement copied over every face from the i-th on
replace_face(frame, replace, faces, i) ==
  IF i > Len(faces) THEN frame
  ELSE replace_face([frame EXCEPT ![faces[i]] = replace[1]], replace, faces, i + 1)

(* ------------------------------- state --------------------------------- *)
NoStats ==
  [currClients |-> U32(0), prevClients |-> U32(0), faceDetections |-> U32(0),
   faceReplacements |-> U32(0), badRequests |-> U32(0)]

\* the locals of a worker between two requests
FreshLocals(reqs, det, rep) ==
  [pc |-> "check_prefix", reqs |-> reqs, operation |-> 0, imageOneSize |-> U32(0),
   image |-> <<>>, frame |-> <<>>, faces |-> <<>>, i |-> 0,
   imageTwoSize |-> U32(0), replace |-> <<>>,
   det |-> det, rep |-> rep, live |-> {}, twice |-> {}]

\* malloc, cvLoadImage, cvCreateImage, cvCreateMemStorage: the buffers bs of
\* the request come to life in the locals l
Alloc(l, bs) == [l EXCEPT !.live = @ \cup bs]

\* free, cvReleaseImage, cvReleaseMemStorage of the buffers bs: twice keeps
\* those released when they were not alive
Release(l, bs) == [l EXCEPT !.twice = @ \cup (bs \ l.live), !.live = @ \ bs]

\* task_executor: free(image) at the end of the loop body, and the next turn of
\* the loop with fresh locals; what the request left unreleased stays
NextRequest(l, det, rep) ==
  Release([FreshLocals(l.reqs, det, rep) EXCEPT !.live = l.live, !.twice = l.twice],
          {"image"})

Unborn == [FreshLocals(0, 0, 0) EXCEPT !.pc = "unborn"]

\* main has parsed its command line, bound its port and calls new_connection
Booted == [pc |-> "new_connection"]

\* parse_command_line: a maxsize of 0 means no limit
parse_maxSize(arg) == IF arg = U32(0) THEN UINT32_MAX ELSE arg

\* new_connection waiting on the semaphore whether or not one was created
LoopTop_always_wait(limit) == "sem_wait"

\* top of the loop of new_connection
LoopTop(limit) == IF limit # 0 THEN "sem_wait" ELSE "accept"

\* main, up to the call of new_connection, for the command lines
\* "uqfacedetect limit maxsize" with limit in limits and maxsize in sizes
InitWith(limits, sizes) ==
  /\ connectionLimit \in limits
  /\ \E arg \in sizes : maxSize = parse_maxSize(arg)
  /\ sem = connectionLimit
  /\ stats = NoStats
  /\ statsLock = Free /\ fileLock = Free /\ cascadeLock = Free
  /\ scratch = <<>>
  /\ accPc = LoopTop(connectionLimit)
  /\ accepted = 0
  /\ wk = [w \in Workers |-> Unborn]
  /\ trace = [w \in Workers |-> <<>>]
  /\ repPc = "sigwait"
  /\ sighups = 0
  /\ pending = FALSE
  /\ report = <<>>
  /\ boot = Booted
  /\ peer = [w \in Workers |-> "open"]

config == <<connectionLimit, maxSize>>
reporterVars == <<repPc, sighups, pending, report>>
acceptorVars == <<accPc, accepted>>

(* ------------------------------ acceptor ------------------------------- *)
\* new_connection taking a slot when there is one and going on when there is
\* none (sem_trywait for sem_wait)
AcceptorSemWait_no_wait ==
  /\ accPc = "sem_wait"
  /\ sem' = IF sem > 0 THEN sem - 1 ELSE sem
  /\ accPc' = "accept"
  /\ UNCHANGED <<client, boot, peer, config, stats, statsLock, fileLock, cascadeLock, scratch, accepted,
                 wk, trace, reporterVars>>

\* new_connection: sem_wait(limitConnections)
AcceptorSemWait ==
  /\ accPc = "sem_wait"
  /\ sem > 0
  /\ sem' = sem - 1
  /\ accPc' = "accept"
  /\ UNCHANGED <<client, boot, peer, config, stats, statsLock, fileLock, cascadeLock, scratch, accepted,
                 wk, trace, reporterVars>>

\* new_connection: accept(listenfd) returns the next connection
AcceptorAccept(conns) ==
  /\ accPc = "accept"
  /\ accepted < conns
  /\ accepted' = accepted + 1
  /\ accPc' = "stats_lock"
  /\ UNCHANGED <<client, boot, peer, config, sem, stats, statsLock, fileLock, cascadeLock, scratch,
                 wk, trace, reporterVars>>

\* new_connection: pthread_mutex_lock(&stats->statsLock)
AcceptorLock ==
  /\ accPc = "stats_lock"
  /\ statsLock = Free
  /\ statsLock' = Acceptor
  /\ accPc' = "stats_inc"
  /\ UNCHANGED <<client, boot, peer, config, sem, stats, fileLock, cascadeLock, scratch, accepted,
                 wk, trace, reporterVars>>

\* new_connection unlocking without the currClients++
AcceptorIncrement_forgotten ==
  /\ accPc = "stats_inc"
  /\ stats' = stats
  /\ statsLock' = Free
  /\ accPc' = "create"
  /\ UNCHANGED <<client, boot, peer, config, sem, fileLock, cascadeLock, scratch, accepted,
                 wk, trace, reporterVars>>

\* new_connection: currClients++ and unlock
AcceptorIncrement ==
  /\ accPc = "stats_inc"
  /\ stats' = [stats EXCEPT !.currClients = Inc32(@)]
  /\ statsLock' = Free
  /\ accPc' = "create"
  /\ UNCHANGED <<client, boot, peer, config, sem, fileLock, cascadeLock, scratch, accepted,
                 wk, trace, reporterVars>>

\* new_connection: pthread_create(task_executor) for the accepted connection
AcceptorCreate ==
  /\ accPc = "create"
  /\ wk' = [wk EXCEPT ![accepted] = FreshLocals(0, 0, 0)]
  /\ accPc' = LoopTop(connectionLimit)
  /\ UNCHANGED <<client, boot, peer, config, sem, stats, statsLock, fileLock, cascadeLock, scratch,
                 accepted, trace, reporterVars>>

(* ------------------------------ reporter ------------------------------- *)
\* main blocking SIGHUP only after it has created the reporter: the reporter
\* does not inherit the block
Blocked_after_create == {t \in 1..(NumConns + 2) : t # NumConns + 2}

\* the threads that have SIGHUP blocked: main blocks it before it creates the
\* reporter, and becomes the acceptor, which creates the workers; every thread
\* inherits the mask of its creator
Blocked == 1..(NumConns + 2)

\* a SIGHUP is sent to the process: it stays pending for sigwait when every
\* thread has it blocked, and ends the process when a thread has not
Sighup ==
  /\ sighups < MaxSighups
  /\ ~pending
  /\ repPc # "killed"
  /\ sighups' = sighups + 1
  /\ IF \A t \in 1..(NumConns + 2) : t \in Blocked
       THEN pending' = TRUE /\ repPc' = repPc
       ELSE pending' = FALSE /\ repPc' = "killed"
  /\ UNCHANGED <<client, boot, peer, config, sem, stats, statsLock, fileLock, cascadeLock, scratch,
                 acceptorVars, wk, trace, report>>

\* sighup_listener: sigwait returns
ReporterSigwait ==
  /\ repPc = "sigwait"
  /\ pending
  /\ pending' = FALSE
  /\ repPc' = "stats_lock"
  /\ UNCHANGED <<client, boot, peer, config, sem, stats, statsLock, fileLock, cascadeLock, scratch,
                 acceptorVars, wk, trace, sighups, report>>

\* sighup_listener going on to print without taking the mutex
ReporterLock_skipped ==
  /\ repPc = "stats_lock"
  /\ repPc' = "print"
  /\ UNCHANGED <<client, boot, peer, config, sem, stats, statsLock, fileLock, cascadeLock, scratch,
                 acceptorVars, wk, trace, sighups, pending, report>>

\* sighup_listener: pthread_mutex_lock
ReporterLock ==
  /\ repPc = "stats_lock"
  /\ statsLock = Free
  /\ statsLock' = Reporter
  /\ repPc' = "print"
  /\ UNCHANGED <<client, boot, peer, config, sem, stats, fileLock, cascadeLock, scratch,
                 acceptorVars, wk, trace, sighups, pending, report>>

\* the counters in the order sighup_listener prints them
Counters ==
  <<"currClients", "prevClients", "faceDetections", "faceReplacements", "badRequests">>

\* sighup_listener: one fprintf, which reads the next counter into the row of
\* the report being printed
ReporterPrint ==
  /\ repPc = "print"
  /\ LET n == Len(report) IN
       IF n = 0 \/ Len(report[n]) = Len(Counters)
         THEN report' = Append(report, <<stats[Counters[1]]>>)
         ELSE report' = [report EXCEPT ![n] = Append(@, stats[Counters[Len(@) + 1]])]
  /\ repPc' = IF Len(report'[Len(report')]) = Len(Counters) THEN "unlock" ELSE "print"
  /\ UNCHANGED <<client, boot, peer, config, sem, stats, statsLock, fileLock, cascadeLock, scratch,
                 acceptorVars, wk, trace, sighups, pending>>

\* sighup_listener: fflush and pthread_mutex_unlock
ReporterUnlock ==
  /\ repPc = "unlock"
  /\ statsLock' = Free
  /\ repPc' = "sigwait"
  /\ UNCHANGED <<client, boot, peer, config, sem, stats, fileLock, cascadeLock, scratch,
                 acceptorVars, wk, trace, sighups, pending, report>>

(* ------------------------------- workers ------------------------------- *)
others == <<config, acceptorVars, reporterVars>>

\* send_bytes: what becomes of a send on the socket of worker w: send() fails
\* (MSG_NOSIGNAL, so no signal) once the peer is gone, and -1 is returned
send_bytes(w, e) == IF e.ev = "send" /\ peer[w] = "reset" THEN FaultEv("send") ELSE e

\* send() of a payload blocks while the peer does not read what was sent
Blocks(w, evs) ==
  \E k \in 1..Len(evs) : evs[k].ev = "send" /\ evs[k].bytes # <<>> /\ peer[w] = "stalled"

\* worker w moves to the locals l after doing evs on its socket
Step(w, l, evs) ==
  /\ ~Blocks(w, evs)
  /\ wk' = [wk EXCEPT ![w] = l]
  /\ trace' = [trace EXCEPT ![w] = @ \o [k \in 1..Len(evs) |-> send_bytes(w, evs[k])]]

At(w, pc) == wk[w].pc = pc

Goto(w, pc) == [wk[w] EXCEPT !.pc = pc]

\* what the client has put on the wire when the worker reads a prefix: anything
\* while it has requests left to send, nothing but its close after that
NextPrefix(w, C) == IF wk[w].reqs < C.reqs THEN C.prefix ELSE {<<>>}

\* check_prefix taking the canned-file path for the first request of a
\* connection only: a wrong prefix later is answered as an invalid message
check_prefix_first_only(w, C) ==
  /\ At(w, "check_prefix")
  /\ \E a \in NextPrefix(w, C) :
       LET l == [wk[w] EXCEPT !.reqs = @ + 1] IN
       IF FOUR_BYTES # read_bytes(a, FOUR_BYTES) \/ (le32toh(a) # PREFIX /\ wk[w].reqs > 0)
         THEN Step(w, [l EXCEPT !.pc = "exit"], <<ReadEv("prefix", a)>> \o invalid_message)
       ELSE IF le32toh(a) # PREFIX
         THEN Step(w, [l EXCEPT !.pc = "bad_request"], <<ReadEv("prefix", a)>>)
       ELSE Step(w, [l EXCEPT !.pc = "check_operation"], <<ReadEv("prefix", a)>>)
  /\ UNCHANGED <<client, boot, peer, others, sem, stats, statsLock, fileLock, cascadeLock, scratch>>

\* check_prefix comparing the bytes as they come: bytes that cannot start the
\* magic take the canned-file path even when fewer than four arrived
check_prefix_bytewise(w, C) ==
  /\ At(w, "check_prefix")
  /\ \E a \in NextPrefix(w, C) :
       LET l == [wk[w] EXCEPT !.reqs = @ + 1] IN
       IF a # SubSeq(Magic, 1, Len(a))
         THEN Step(w, [l EXCEPT !.pc = "bad_request"], <<ReadEv("prefix", a)>>)
       ELSE IF FOUR_BYTES # read_bytes(a, FOUR_BYTES)
         THEN Step(w, [l EXCEPT !.pc = "exit"], <<ReadEv("prefix", a)>> \o invalid_message)
       ELSE Step(w, [l EXCEPT !.pc = "check_operation"], <<ReadEv("prefix", a)>>)
  /\ UNCHANGED <<client, boot, peer, others, sem, stats, statsLock, fileLock, cascadeLock, scratch>>

\* check_prefix: read four bytes and compare them with the magic
check_prefix(w, C) ==
  /\ At(w, "check_prefix")
  /\ \E a \in NextPrefix(w, C) :
       LET l == [wk[w] EXCEPT !.reqs = @ + 1] IN
       IF FOUR_BYTES # read_bytes(a, FOUR_BYTES)
         THEN Step(w, [l EXCEPT !.pc = "exit"], <<ReadEv("prefix", a)>> \o invalid_message)
       ELSE IF le32toh(a) # PREFIX
         THEN Step(w, [l EXCEPT !.pc = "bad_request"], <<ReadEv("prefix", a)>>)
       ELSE Step(w, [l EXCEPT !.pc = "check_operation"], <<ReadEv("prefix", a)>>)
  /\ UNCHANGED <<client, boot, peer, others, sem, stats, statsLock, fileLock, cascadeLock, scratch>>

\* bad_request: pthread_mutex_lock(&stats->statsLock)
bad_request_lock(w) ==
  /\ At(w, "bad_request")
  /\ statsLock = Free
  /\ statsLock' = w
  /\ Step(w, Goto(w, "bad_request_inc"), <<>>)
  /\ UNCHANGED <<client, boot, peer, others, sem, stats, fileLock, cascadeLock, scratch>>

\* bad_request ending the thread itself after the close (pthread_exit)
bad_request_thread_exit(w) ==
  /\ At(w, "bad_request_inc")
  /\ stats' = [stats EXCEPT !.badRequests = Inc32(@)]
  /\ statsLock' = Free
  /\ Step(w, Goto(w, "done"), <<send_prefix_file, ShutdownEv, CloseEv>>)
  /\ UNCHANGED <<client, boot, peer, others, sem, fileLock, cascadeLock, scratch>>

\* bad_request: badRequests++, unlock, send the canned file, shutdown, close
bad_request(w) ==
  /\ At(w, "bad_request_inc")
  /\ stats' = [stats EXCEPT !.badRequests = Inc32(@)]
  /\ statsLock' = Free
  /\ Step(w, Goto(w, "exit"), <<send_prefix_file, ShutdownEv, CloseEv>>)
  /\ UNCHANGED <<client, boot, peer, others, sem, fileLock, cascadeLock, scratch>>

\* check_operation with the return after wrong_operation forgotten: the worker
\* goes on to the next request
check_operation_continue(w, C) ==
  /\ At(w, "check_operation")
  /\ \E a \in C.operation :
       IF 1 # read_bytes(a, 1)
         THEN Step(w, Goto(w, "exit"), <<ReadEv("operation", a)>> \o invalid_message)
       ELSE IF a[1] > 1
         THEN Step(w, Goto(w, "check_prefix"), <<ReadEv("operation", a)>> \o wrong_operation)
       ELSE Step(w, [wk[w] EXCEPT !.pc = "determine_image_size", !.operation = a[1]],
                 <<ReadEv("operation", a)>>)
  /\ UNCHANGED <<client, boot, peer, others, sem, stats, statsLock, fileLock, cascadeLock, scratch>>

\* check_operation: read one byte, accept 0 and 1
check_operation(w, C) ==
  /\ At(w, "check_operation")
  /\ \E a \in C.operation :
       IF 1 # read_bytes(a, 1)
         THEN Step(w, Goto(w, "exit"), <<ReadEv("operation", a)>> \o invalid_message)
       ELSE IF a[1] > 1
         THEN Step(w, Goto(w, "exit"), <<ReadEv("operation", a)>> \o wrong_operation)
       ELSE Step(w, [wk[w] EXCEPT !.pc = "determine_image_size", !.operation = a[1]],
                 <<ReadEv("operation", a)>>)
  /\ UNCHANGED <<client, boot, peer, others, sem, stats, statsLock, fileLock, cascadeLock, scratch>>

\* determine_image_size: read the length of the first image and check it
determine_image_size(w, C) ==
  /\ At(w, "determine_image_size")
  /\ \E a \in C.size :
       IF FOUR_BYTES # read_bytes(a, FOUR_BYTES)
         THEN Step(w, Goto(w, "exit"), <<ReadEv("size1", a)>> \o invalid_message)
       ELSE IF check_image_size(le32toh(a)) # <<>>
         THEN Step(w, Goto(w, "exit"),
                   <<ReadEv("size1", a)>> \o check_image_size(le32toh(a)))
       ELSE Step(w, [wk[w] EXCEPT !.pc = "read_image", !.imageOneSize = le32toh(a)],
                 <<ReadEv("size1", a)>>)
  /\ UNCHANGED <<client, boot, peer, others, sem, stats, statsLock, fileLock, cascadeLock, scratch>>

\* task_executor: read the first image
read_image(w, C) ==
  /\ At(w, "read_image")
  /\ \E a \in PayloadArrivals(C.image, wk[w].imageOneSize) :
       IF read_bytes32(a, wk[w].imageOneSize) # wk[w].imageOneSize
         THEN Step(w, Goto(w, "exit"), <<ReadEv("image1", a)>> \o invalid_message)
       ELSE Step(w, Alloc([wk[w] EXCEPT !.pc = "create_frame", !.image = a], {"image"}),
                 <<ReadEv("image1", a)>>)
  /\ UNCHANGED <<client, boot, peer, others, sem, stats, statsLock, fileLock, cascadeLock, scratch>>

\* create_frame going on without waiting for the file mutex
create_frame_lock_no_wait(w) ==
  /\ At(w, "create_frame")
  /\ fileLock' = w
  /\ Step(w, Goto(w, "create_frame_write"), <<>>)
  /\ UNCHANGED <<client, boot, peer, others, sem, stats, statsLock, cascadeLock, scratch>>

\* create_frame: pthread_mutex_lock(fileLock)
create_frame_lock(w) ==
  /\ At(w, "create_frame")
  /\ fileLock = Free
  /\ fileLock' = w
  /\ Step(w, Goto(w, "create_frame_write"), <<>>)
  /\ UNCHANGED <<client, boot, peer, others, sem, stats, statsLock, cascadeLock, scratch>>

\* create_frame: truncate the scratch file and write the image to it; a failed
\* write unlocks, and image_executor answers invalid image
create_frame_write(w) ==
  /\ At(w, "create_frame_write")
  /\ \E written \in BOOLEAN :
       IF written
         THEN /\ scratch' = wk[w].image
              /\ fileLock' = fileLock
              /\ Step(w, Goto(w, "create_frame_load"), <<>>)
         ELSE /\ scratch' = <<>>
              /\ fileLock' = Free
              /\ Step(w, Release(Goto(w, "exit"), {"image"}), <<FaultEv("write")>> \o invalid_image)
  /\ UNCHANGED <<client, boot, peer, others, sem, stats, statsLock, cascadeLock>>

\* create_frame: cvLoadImage of the scratch file, unlock
create_frame_load(w) ==
  /\ At(w, "create_frame_load")
  /\ fileLock' = Free
  /\ IF cvLoadImage(scratch) = <<>>
       THEN Step(w, Release(Goto(w, "exit"), {"image"}), invalid_image)
       ELSE Step(w, Alloc([wk[w] EXCEPT !.pc = "find_faces", !.frame = cvLoadImage(scratch)],
                       {"frame", "grey"}),
                 <<>>)
  /\ UNCHANGED <<client, boot, peer, others, sem, stats, statsLock, cascadeLock, scratch>>

\* find_faces without the pthread_mutex_lock: it enters the detector at once
find_faces_unlocked(w) ==
  /\ At(w, "find_faces")
  /\ cascadeLock' = w
  /\ \E storage \in BOOLEAN :
       IF storage
         THEN Step(w, Alloc(Goto(w, "find_faces_detect"), {"storage"}), <<>>)
         ELSE Step(w, Release(Goto(w, "exit"), {"grey", "frame", "image"}), <<FaultEv("storage")>> \o no_faces)
  /\ UNCHANGED <<client, boot, peer, others, sem, stats, statsLock, fileLock, scratch>>

\* find_faces: pthread_mutex_lock(cascadeLock); with no detector storage it
\* returns NULL at once, and image_executor answers no faces
find_faces_lock(w) ==
  /\ At(w, "find_faces")
  /\ cascadeLock = Free
  /\ cascadeLock' = w
  /\ \E storage \in BOOLEAN :
       IF storage
         THEN Step(w, Alloc(Goto(w, "find_faces_detect"), {"storage"}), <<>>)
         ELSE Step(w, Release(Goto(w, "exit"), {"grey", "frame", "image"}), <<FaultEv("storage")>> \o no_faces)
  /\ UNCHANGED <<client, boot, peer, others, sem, stats, statsLock, fileLock, scratch>>

\* find_faces_detect with the test for no faces off by one (total <= 1)
find_faces_detect_off_by_one(w) ==
  /\ At(w, "find_faces_detect")
  /\ cascadeLock' = Free
  /\ LET faces == cvHaarDetectFaces(wk[w].frame) IN
       IF Len(faces) <= 1
         THEN Step(w, Release(Goto(w, "exit"), {"storage", "grey", "frame", "image"}),
                   no_faces)
       ELSE IF wk[w].operation = 0
         THEN Step(w, [wk[w] EXCEPT !.pc = "draw_faces", !.faces = faces, !.i = 1], <<>>)
       ELSE Step(w, [wk[w] EXCEPT !.pc = "create_replacement", !.faces = faces], <<>>)
  /\ UNCHANGED <<client, boot, peer, others, sem, stats, statsLock, fileLock, scratch>>

\* find_faces: cvHaarDetectObjects, unlock; image_executor then branches on the
\* faces and on the operation
find_faces_detect(w) ==
  /\ At(w, "find_faces_detect")
  /\ cascadeLock' = Free
  /\ LET faces == cvHaarDetectFaces(wk[w].frame) IN
       IF Len(faces) = 0
         THEN Step(w, Release(Goto(w, "exit"), {"storage", "grey", "frame", "image"}),
                   no_faces)
       ELSE IF wk[w].operation = 0
         THEN Step(w, [wk[w] EXCEPT !.pc = "draw_faces", !.faces = faces, !.i = 1], <<>>)
       ELSE Step(w, [wk[w] EXCEPT !.pc = "create_replacement", !.faces = faces], <<>>)
  /\ UNCHANGED <<client, boot, peer, others, sem, stats, statsLock, fileLock, scratch>>

\* draw_faces: the ellipse of face i, then pthread_mutex_lock(cascadeLock)
draw_faces_lock(w) ==
  /\ At(w, "draw_faces")
  /\ cascadeLock = Free
  /\ cascadeLock' = w
  /\ Step(w, [wk[w] EXCEPT !.pc = "draw_faces_detect",
                           !.frame = cvEllipse(@, wk[w].faces[wk[w].i])], <<>>)
  /\ UNCHANGED <<client, boot, peer, others, sem, stats, statsLock, fileLock, scratch>>

\* draw_faces: cvHaarDetectObjects for the eyes of face i, unlock, next face
draw_faces_detect(w) ==
  /\ At(w, "draw_faces_detect")
  /\ cascadeLock' = Free
  /\ IF wk[w].i < Len(wk[w].faces)
       THEN Step(w, [wk[w] EXCEPT !.pc = "draw_faces", !.i = @ + 1], <<>>)
       ELSE Step(w, Goto(w, "output_face_detection"), <<>>)
  /\ UNCHANGED <<client, boot, peer, others, sem, stats, statsLock, fileLock, scratch>>

\* create_replacement: read the length of the second image and check it
create_replacement_size(w, C) ==
  /\ At(w, "create_replacement")
  /\ \E a \in C.size :
       IF FOUR_BYTES # read_bytes(a, FOUR_BYTES)
         THEN Step(w, Release(Goto(w, "exit"), {"image"}), <<ReadEv("size2", a)>> \o invalid_message)
       ELSE IF check_image_size(le32toh(a)) # <<>>
         THEN Step(w, Release(Goto(w, "exit"), {"image"}),
                   <<ReadEv("size2", a)>> \o check_image_size(le32toh(a)))
       ELSE Step(w, [wk[w] EXCEPT !.pc = "create_replacement_read",
                                  !.imageTwoSize = le32toh(a)],
                 <<ReadEv("size2", a)>>)
  /\ UNCHANGED <<client, boot, peer, others, sem, stats, statsLock, fileLock, cascadeLock, scratch>>

\* create_replacement answering a short second image as an invalid image
create_replacement_read_invalid_image(w, C) ==
  /\ At(w, "create_replacement_read")
  /\ \E a \in PayloadArrivals(C.image2, wk[w].imageTwoSize) :
       IF read_bytes32(a, wk[w].imageTwoSize) # wk[w].imageTwoSize
         THEN Step(w, Release(Goto(w, "exit"), {"image"}), <<ReadEv("image2", a)>> \o invalid_image)
       ELSE Step(w, Alloc([wk[w] EXCEPT !.pc = "create_replacement_lock", !.replace = a],
                       {"image2"}),
                 <<ReadEv("image2", a)>>)
  /\ UNCHANGED <<client, boot, peer, others, sem, stats, statsLock, fileLock, cascadeLock, scratch>>

\* create_replacement: read the second image
create_replacement_read(w, C) ==
  /\ At(w, "create_replacement_read")
  /\ \E a \in PayloadArrivals(C.image2, wk[w].imageTwoSize) :
       IF read_bytes32(a, wk[w].imageTwoSize) # wk[w].imageTwoSize
         THEN Step(w, Release(Goto(w, "exit"), {"image"}), <<ReadEv("image2", a)>> \o invalid_message)
       ELSE Step(w, Alloc([wk[w] EXCEPT !.pc = "create_replacement_lock", !.replace = a],
                       {"image2"}),
                 <<ReadEv("image2", a)>>)
  /\ UNCHANGED <<client, boot, peer, others, sem, stats, statsLock, fileLock, cascadeLock, scratch>>

\* create_replacement: pthread_mutex_lock(fileLock)
create_replacement_lock(w) ==
  /\ At(w, "create_replacement_lock")
  /\ fileLock = Free
  /\ fileLock' = w
  /\ Step(w, Goto(w, "create_replacement_write"), <<>>)
  /\ UNCHANGED <<client, boot, peer, others, sem, stats, statsLock, cascadeLock, scratch>>

\* create_replacement: truncate the scratch file and write the second image to
\* it; a failed write unlocks and answers invalid image
create_replacement_write(w) ==
  /\ At(w, "create_replacement_write")
  /\ \E written \in BOOLEAN :
       IF written
         THEN /\ scratch' = wk[w].replace
              /\ fileLock' = fileLock
              /\ Step(w, Release(Goto(w, "create_replacement_load"), {"image2"}), <<>>)
         ELSE /\ scratch' = <<>>
              /\ fileLock' = Free
              /\ Step(w, Release(Goto(w, "exit"), {"image2", "image"}), <<FaultEv("write")>> \o invalid_image)
  /\ UNCHANGED <<client, boot, peer, others, sem, stats, statsLock, cascadeLock>>

\* create_replacement: cvLoadImage of the scratch file, unlock; replace_face
\* then copies the replacement over the faces
create_replacement_load(w) ==
  /\ At(w, "create_replacement_load")
  /\ fileLock' = Free
  /\ LET replacement == cvLoadImage(scratch) IN
       IF replacement = <<>>
         THEN Step(w, Release(Goto(w, "exit"), {"image"}), invalid_image)
         ELSE Step(w, Alloc([wk[w] EXCEPT
                               !.pc = "output_face_detection",
                               !.replace = replacement,
                               !.frame = replace_face(@, replacement, wk[w].faces, 1)],
                            {"replacement"}),
                   <<>>)
  /\ UNCHANGED <<client, boot, peer, others, sem, stats, statsLock, cascadeLock, scratch>>

\* output_face_detection going on without waiting for the file mutex
output_face_detection_lock_no_wait(w) ==
  /\ At(w, "output_face_detection")
  /\ fileLock' = w
  /\ Step(w, Goto(w, "output_face_detection_save"), <<>>)
  /\ UNCHANGED <<client, boot, peer, others, sem, stats, statsLock, cascadeLock, scratch>>

\* output_face_detection: pthread_mutex_lock(fileLock)
output_face_detection_lock(w) ==
  /\ At(w, "output_face_detection")
  /\ fileLock = Free
  /\ fileLock' = w
  /\ Step(w, Goto(w, "output_face_detection_save"), <<>>)
  /\ UNCHANGED <<client, boot, peer, others, sem, stats, statsLock, cascadeLock, scratch>>

\* output_face_detection: cvSaveImage to the scratch file, release the frame
output_face_detection_save(w) ==
  /\ At(w, "output_face_detection_save")
  /\ scratch' = cvSaveImage(wk[w].frame)
  /\ Step(w, Release([wk[w] EXCEPT !.pc = "output_face_detection_send", !.frame = <<>>],
                      {"frame", "grey", "storage"}), <<>>)
  /\ UNCHANGED <<client, boot, peer, others, sem, stats, statsLock, fileLock, cascadeLock>>

\* output_face_detection: read the scratch file back, send it as an
\* operation-2 frame, unlock
output_face_detection_send(w) ==
  /\ At(w, "output_face_detection_send")
  /\ fileLock' = Free
  /\ Step(w, Release(Goto(w, IF wk[w].operation = 0 THEN "detect_stats" ELSE "replace_stats"),
                     IF wk[w].operation = 0 THEN {} ELSE {"replacement"}),
          <<send_output(IMAGE_OPERATION, "", scratch, U32(Len(scratch)))>>)
  /\ UNCHANGED <<client, boot, peer, others, sem, stats, statsLock, cascadeLock, scratch>>

\* image_executor: pthread_mutex_lock(&stats->statsLock) after a detection
detect_stats_lock(w) ==
  /\ At(w, "detect_stats")
  /\ statsLock = Free
  /\ statsLock' = w
  /\ Step(w, Goto(w, "detect_stats_inc"), <<>>)
  /\ UNCHANGED <<client, boot, peer, others, sem, stats, fileLock, cascadeLock, scratch>>

\* detect_stats_inc counting the detection as a replacement
detect_stats_wrong_counter(w) ==
  /\ At(w, "detect_stats_inc")
  /\ stats' = [stats EXCEPT !.faceReplacements = Inc32(@)]
  /\ statsLock' = Free
  /\ Step(w, NextRequest(wk[w], wk[w].det, wk[w].rep + 1), <<>>)
  /\ UNCHANGED <<client, boot, peer, others, sem, fileLock, cascadeLock, scratch>>

\* image_executor: faceDetections++, unlock; task_executor frees the image and
\* loops
detect_stats_inc(w) ==
  /\ At(w, "detect_stats_inc")
  /\ stats' = [stats EXCEPT !.faceDetections = Inc32(@)]
  /\ statsLock' = Free
  /\ Step(w, NextRequest(wk[w], wk[w].det + 1, wk[w].rep), <<>>)
  /\ UNCHANGED <<client, boot, peer, others, sem, fileLock, cascadeLock, scratch>>

\* execute_replacement: pthread_mutex_lock(&stats->statsLock)
replace_stats_lock(w) ==
  /\ At(w, "replace_stats")
  /\ statsLock = Free
  /\ statsLock' = w
  /\ Step(w, Goto(w, "replace_stats_inc"), <<>>)
  /\ UNCHANGED <<client, boot, peer, others, sem, stats, fileLock, cascadeLock, scratch>>

\* execute_replacement: faceReplacements++, unlock; task_executor frees the
\* image and loops
replace_stats_inc(w) ==
  /\ At(w, "replace_stats_inc")
  /\ stats' = [stats EXCEPT !.faceReplacements = Inc32(@)]
  /\ statsLock' = Free
  /\ Step(w, NextRequest(wk[w], wk[w].det, wk[w].rep + 1), <<>>)
  /\ UNCHANGED <<client, boot, peer, others, sem, fileLock, cascadeLock, scratch>>

\* task_executor leaving without the sem_post
task_executor_exit_no_post(w) ==
  /\ At(w, "exit")
  /\ sem' = sem
  /\ Step(w, Goto(w, "update_client_stats"), <<>>)
  /\ UNCHANGED <<client, boot, peer, others, stats, statsLock, fileLock, cascadeLock, scratch>>

\* task_executor, after the loop: sem_post when there is a semaphore
task_executor_exit(w) ==
  /\ At(w, "exit")
  /\ sem' = IF connectionLimit # 0 THEN sem + 1 ELSE sem
  /\ Step(w, Goto(w, "update_client_stats"), <<>>)
  /\ UNCHANGED <<client, boot, peer, others, stats, statsLock, fileLock, cascadeLock, scratch>>

\* update_client_stats: pthread_mutex_lock(&stats->statsLock)
update_client_stats_lock(w) ==
  /\ At(w, "update_client_stats")
  /\ statsLock = Free
  /\ statsLock' = w
  /\ Step(w, Goto(w, "update_client_stats_dec"), <<>>)
  /\ UNCHANGED <<client, boot, peer, others, sem, stats, fileLock, cascadeLock, scratch>>

\* update_client_stats with the two counters swapped: currClients++, prevClients--
update_client_stats_swapped(w) ==
  /\ At(w, "update_client_stats_dec")
  /\ stats' = [stats EXCEPT !.currClients = Inc32(@), !.prevClients = Dec32(@)]
  /\ statsLock' = Free
  /\ Step(w, Goto(w, "done"), <<>>)
  /\ UNCHANGED <<client, boot, peer, others, sem, fileLock, cascadeLock, scratch>>

\* update_client_stats with the prevClients++ forgotten
update_client_stats_no_completed(w) ==
  /\ At(w, "update_client_stats_dec")
  /\ stats' = [stats EXCEPT !.currClients = Dec32(@)]
  /\ statsLock' = Free
  /\ Step(w, Goto(w, "done"), <<>>)
  /\ UNCHANGED <<client, boot, peer, others, sem, fileLock, cascadeLock, scratch>>

\* update_client_stats: currClients--, prevClients++, unlock; the thread ends
update_client_stats(w) ==
  /\ At(w, "update_client_stats_dec")
  /\ stats' = [stats EXCEPT !.currClients = Dec32(@), !.prevClients = Inc32(@)]
  /\ statsLock' = Free
  /\ Step(w, Goto(w, "done"), <<>>)
  /\ UNCHANGED <<client, boot, peer, others, sem, fileLock, cascadeLock, scratch>>

(* ----------------------------- uqfaceclient ---------------------------- *)
PREFIX_ONE == 35
PREFIX_TWO == 16
PREFIX_THREE == 114
PREFIX_FOUR == 49
PREIMAGE_SIZE == 9
MASK == 255
FOUR == 4

\* A size_t below 2^47 is a pair <<hi, lo>> with lo its low 16 bits; an int is
\* such a pair with hi in -2^15 .. 2^15 - 1.
AddSize(a, b) ==
  LET lo == a[2] + b[2] IN <<a[1] + b[1] + lo \div HALF, lo % HALF>>

\* (uint32_t) of a size_t: its low 32 bits
uint32_t(size) == <<size[1] % HALF, size[2]>>

\* (int) of a size_t: its low 32 bits as a two's complement number
int(size) ==
  IF size[1] % HALF >= HALF \div 2 THEN <<(size[1] % HALF) - HALF, size[2]>>
  ELSE <<size[1] % HALF, size[2]>>

\* the four bytes create_request stores for a length: length & MASK,
\* (length >> 8) & MASK, (length >> 16) & MASK, (length >> 24) & MASK
LengthBytes(length) ==
  <<length[2] % (MASK + 1), (length[2] \div (MASK + 1)) % (MASK + 1),
    length[1] % (MASK + 1), (length[1] \div (MASK + 1)) % (MASK + 1)>>

\* Buffer: the data of an input file is known by its name only
Buffer(data, length) == [data |-> data, length |-> length]

NoBuffer == Buffer("", <<0, 0>>)

\* one write into the request buffer: bytes stored one by one, or a memcpy of
\* a whole input
Store(at, bytes) == [at |-> at, bytes |-> bytes, from |-> NoBuffer]

Memcpy(at, from) == [at |-> at, bytes |-> <<>>, from |-> from]

\* create_request: the size of the request and the writes into its buffer, in
\* the order the code makes them
create_request(imageOne, imageTwo, params) ==
  LET size == IF params.replaceFileGiven
                THEN AddSize(AddSize(<<0, PREIMAGE_SIZE>>, imageOne.length),
                             AddSize(<<0, FOUR>>, imageTwo.length))
                ELSE AddSize(<<0, PREIMAGE_SIZE>>, imageOne.length)
      index == int(AddSize(<<0, PREIMAGE_SIZE>>, imageOne.length))
      first == <<Store(<<0, 0>>, <<PREFIX_FOUR, PREFIX_THREE, PREFIX_TWO, PREFIX_ONE>>),
                 Store(<<0, FOUR>>, <<IF params.replaceFileGiven THEN 1 ELSE 0>>),
                 Store(<<0, FOUR + 1>>, LengthBytes(uint32_t(imageOne.length))),
                 Memcpy(<<0, PREIMAGE_SIZE>>, imageOne)>>
      second == <<Store(index, LengthBytes(uint32_t(imageTwo.length))),
                  Memcpy(AddSize(index, <<0, FOUR>>), imageTwo)>>
  IN Buffer(IF params.replaceFileGiven THEN first \o second ELSE first, size)

\* the writes of a request that fall outside its buffer: the index of the
\* second length is an int, negative when 9 + imageOne.length is 2^31 or more
OutOfBounds(request) ==
  {k \in 1..Len(request.data) : request.data[k].at[1] < 0}

\* the lengths of the input files of a run
InputLengths ==
  {<<0, 0>>, <<0, 1>>, <<0, 2>>, <<0, 300>>, <<1, 0>>, <<HALF \div 2 - 1, HALF - PREIMAGE_SIZE>>,
   <<HALF - 1, HALF - 1>>, <<HALF, 0>>}

\* what the process has put out: its exit status (-1 while it runs) and what
\* it wrote to stdout, to the output file and to stderr
NoOutput == [status |-> -1, stdout |-> <<>>, file |-> <<>>, stderr |-> <<>>]

ClientOff ==
  [pc |-> "off", params |-> [replaceFileGiven |-> FALSE, outputFileNameGiven |-> FALSE],
   imageOne |-> NoBuffer, imageTwo |-> NoBuffer, request |-> NoBuffer, sent |-> NoBuffer,
   response |-> <<>>, out |-> NoOutput]

\* main, once the input files are read: imageTwo stays empty without
\* --replacefile
ClientStarts ==
  {[ClientOff EXCEPT !.pc = "create_request", !.imageOne = Buffer("one", one)] :
     one \in InputLengths}
  \cup
  {[ClientOff EXCEPT !.pc = "create_request", !.params.replaceFileGiven = TRUE,
                     !.imageOne = Buffer("one", one), !.imageTwo = Buffer("two", two)] :
     one \in InputLengths, two \in InputLengths}

serverVars == <<connectionLimit, maxSize, sem, stats, statsLock, fileLock, cascadeLock,
                scratch, accPc, accepted, wk, trace, repPc, sighups, pending, report,
                boot, peer>>

\* main: create_request; a write outside the buffer is undefined behaviour, the
\* process is killed or goes on with a request that lacks what was written there
ClientCreateRequest ==
  /\ client.pc = "create_request"
  /\ LET request == create_request(client.imageOne, client.imageTwo, client.params) IN
       IF OutOfBounds(request) = {}
         THEN client' = [client EXCEPT !.pc = "send", !.request = request]
         ELSE \/ client' = [client EXCEPT !.pc = "killed"]
              \/ client' = [client EXCEPT
                              !.pc = "send",
                              !.request = Buffer(SelectSeq(request.data,
                                                           LAMBDA x : x.at[1] >= 0),
                                                 request.length)]
  /\ UNCHANGED serverVars

\* main: send_without_signals of the whole request
ClientSend ==
  /\ client.pc = "send"
  /\ client' = [client EXCEPT !.pc = "recieve_response", !.sent = client.request]
  /\ UNCHANGED serverVars

(* ----------------------- the client reads the response ----------------- *)
\* read_bytes on a socket: the next n bytes of what the peer sent, or what is
\* left of it before the peer's close
Take(rest, n) == SubSeq(rest, 1, IF n[1] = 0 /\ n[2] <= Len(rest) THEN n[2] ELSE Len(rest))

THREE == 3
COMMUNICATION_ERROR == 9
ERROR_MESSAGE == 11

\* a uint32_t that read_bytes filled with four bytes of the wire, as the
\* little-endian host reads it (recieve_response converts nothing)
stored32(b) == <<b[4] * 256 + b[3], b[2] * 256 + b[1]>>

\* communication_error: the message on stderr, exit(COMMUNICATION_ERROR)
communication_error ==
  [NoOutput EXCEPT !.status = COMMUNICATION_ERROR,
                   !.stderr = <<"uqfaceclient: unexpected communication error\n">>]

\* recieve_response accepting any four bytes as the prefix
recieve_response_any_prefix(response, params) ==
  LET Get(from, n) ==
        SubSeq(response, from, IF from + n - 1 <= Len(response) THEN from + n - 1
                               ELSE Len(response))
      operation == Get(5, 1)
      imageSize == stored32(Get(6, 4))
      image == SubSeq(response, 10, Len(response))
  IN IF Len(Get(1, 4)) # 4 THEN communication_error
     ELSE IF Len(operation) # 1 THEN communication_error
     ELSE IF Len(Get(6, 4)) # 4 THEN communication_error
     ELSE IF Len(Take(image, imageSize)) # imageSize[2] \/ imageSize[1] # 0
       THEN communication_error
     ELSE IF operation[1] = 2
       THEN IF params.outputFileNameGiven
              THEN [NoOutput EXCEPT !.status = 0, !.file = Take(image, imageSize)]
              ELSE [NoOutput EXCEPT !.status = 0, !.stdout = Take(image, imageSize)]
     ELSE IF operation[1] = THREE
       THEN [NoOutput EXCEPT
               !.status = ERROR_MESSAGE,
               !.stderr = <<"uqfaceclient: received the following error message: \"",
                            Take(image, imageSize), "\"\n">>]
     ELSE communication_error

\* recieve_response on the bytes the server sends before it closes: the exit
\* status (0 when main returns) and what is written where
recieve_response(response, params) ==
  LET Get(from, n) ==
        SubSeq(response, from, IF from + n - 1 <= Len(response) THEN from + n - 1
                               ELSE Len(response))
      operation == Get(5, 1)
      imageSize == stored32(Get(6, 4))
      image == SubSeq(response, 10, Len(response))
  IN IF Len(Get(1, 4)) # 4 THEN communication_error
     ELSE IF stored32(Get(1, 4)) # PREFIX THEN communication_error
     ELSE IF Len(operation) # 1 THEN communication_error
     ELSE IF Len(Get(6, 4)) # 4 THEN communication_error
     ELSE IF Len(Take(image, imageSize)) # imageSize[2] \/ imageSize[1] # 0
       THEN communication_error
     ELSE IF operation[1] = 2
       THEN IF params.outputFileNameGiven
              THEN [NoOutput EXCEPT !.status = 0, !.file = Take(image, imageSize)]
              ELSE [NoOutput EXCEPT !.status = 0, !.stdout = Take(image, imageSize)]
     ELSE IF operation[1] = THREE
       THEN [NoOutput EXCEPT
               !.status = ERROR_MESSAGE,
               !.stderr = <<"uqfaceclient: received the following error message: \"",
                            Take(image, imageSize), "\"\n">>]
     ELSE communication_error

\* main: recieve_response, then return 0 unless it exited
ClientRecieveResponse ==
  /\ client.pc = "recieve_response"
  /\ client' = [client EXCEPT !.pc = "exited",
                              !.out = recieve_response(client.response, client.params)]
  /\ UNCHANGED serverVars

\* what a server may send before it closes: frames of every operation, with a
\* wrong prefix, with a length that is more or less than the payload, the
\* canned file, and every beginning of each
Replies ==
  {prefix \o <<operation>> \o size \o image :
     prefix \in {Magic, <<49, 114, 16, 0>>, <<35, 16, 114, 49>>},
     operation \in {0, 2, THREE, 255},
     size \in {<<0, 0, 0, 0>>, <<1, 0, 0, 0>>, <<2, 0, 0, 0>>, <<0, 0, 0, 1>>},
     image \in {<<>>, <<7>>, <<7, 8>>, <<7, 8, 9>>}}
  \cup {<<72, 84, 84, 80, 47, 49, 46, 49, 32, 52, 48, 48>>}

ReplyStarts ==
  UNION {{[ClientOff EXCEPT !.pc = "recieve_response",
                            !.params.outputFileNameGiven = given,
                            !.response = SubSeq(reply, 1, n)] :
            given \in BOOLEAN, n \in 0..Len(reply)} :
         reply \in Replies}

(* ------------------------ the client's request on the wire -------------- *)
\* the bytes of a request buffer once create_request's writes are made, for a
\* request short enough to hold in full with inputs given by their bytes; a
\* byte no write reached is -1
Bytes(request) ==
  LET covers(x, k) ==
        /\ x.at[1] = 0
        /\ k > x.at[2]
        /\ k <= x.at[2] + (IF x.bytes # <<>> THEN Len(x.bytes) ELSE Len(x.from.data))
      byte(x, k) ==
        IF x.bytes # <<>> THEN x.bytes[k - x.at[2]] ELSE x.from.data[k - x.at[2]]
  IN [k \in 1..request.length[2] |->
        LET hits == {j \in 1..Len(request.data) : covers(request.data[j], k)} IN
          IF hits = {} THEN -1
          ELSE byte(request.data[CHOOSE j \in hits : \A i \in hits : i <= j], k)]

RECURSIVE Consumed(_)
\* the bytes a worker has read from its socket so far
Consumed(t) ==
  IF t = <<>> THEN 0
  ELSE (IF t[Len(t)].ev = "read" THEN Len(t[Len(t)].bytes) ELSE 0)
         + Consumed(SubSeq(t, 1, Len(t) - 1))

\* the client of worker w is uqfaceclient: each read meets what follows on the
\* wire of the one request it sent
WireClient(w) ==
  LET stream == Bytes(client.sent)
      rest == SubSeq(stream, Consumed(trace[w]) + 1, Len(stream))
  IN [prefix |-> {Take(rest, U32(FOUR_BYTES))},
      operation |-> {Take(rest, U32(1))},
      size |-> {Take(rest, U32(FOUR_BYTES))},
      image |-> {Take(rest, wk[w].imageOneSize)},
      image2 |-> {Take(rest, wk[w].imageTwoSize)},
      reqs |-> MaxReqs]

\* the input files of the client, given by their bytes
WireImages == {<<0>>, <<1>>, <<2>>, <<1, 2>>, <<2, 1, 2>>}

WireStarts ==
  {[ClientOff EXCEPT !.pc = "create_request",
                     !.imageOne = Buffer(one, <<0, Len(one)>>)] :
     one \in WireImages}
  \cup
  {[ClientOff EXCEPT !.pc = "create_request", !.params.replaceFileGiven = TRUE,
                     !.imageOne = Buffer(one, <<0, Len(one)>>),
                     !.imageTwo = Buffer(two, <<0, Len(two)>>)] :
     one \in WireImages, two \in WireImages}

(* ----------------------- the server's command line --------------------- *)
COMMAND_LINE_ERROR == 19
PORTNUM_INDEX == 3
EXTRA_CMD_LINE_ARGS == 4
PORTNUM_INCLUDED == 4
CASCADE_CLASSIFIER == 14
MAX_CONNECTIONS == 10000
BASE == 10
PORT_ERROR == 10
IMAGE_FILE_ERROR == 18

\* A string is the sequence of its characters. argv[k] of the code is Arg(argv, k).
Arg(argv, k) == argv[k + 1]

Digit == <<"0", "1", "2", "3", "4", "5", "6", "7", "8", "9">>

isdigit(c) == \E d \in 1..Len(Digit) : Digit[d] = c

\* valid_cmd_line_number: digits after an optional '+'
valid_cmd_line_number(number) ==
  LET length == Len(number)
      i == IF length > 0 /\ number[1] = "+" THEN 1 ELSE 0
  IN /\ length # 0
     /\ ~(i = 1 /\ length = 1)
     /\ \A k \in (i + 1)..length : isdigit(number[k])

RECURSIVE Decimal(_)
\* the number a string of digits after an optional '+' writes in base BASE, as
\* a pair <<hi, lo>> with lo its low 16 bits
Decimal(number) ==
  IF number = <<>> \/ number = <<"+">> THEN <<0, 0>>
  ELSE LET most == Decimal(SubSeq(number, 1, Len(number) - 1))
           d == (CHOOSE k \in 1..Len(Digit) : Digit[k] = number[Len(number)]) - 1
           lo == most[2] * BASE + d
       IN <<most[1] * BASE + lo \div HALF, lo % HALF>>

INT_MAX == <<HALF \div 2 - 1, HALF - 1>>

\* atoi of a valid number: its value when an int holds it; beyond INT_MAX the
\* behaviour is undefined, and a C library returns the low 32 bits of the
\* value as an int, or INT_MAX
atoi(number) ==
  IF ~Gt32(Decimal(number), INT_MAX) THEN {Decimal(number)}
  ELSE {int(Decimal(number)), INT_MAX}

\* command_line_error: the usage line on stderr, exit(COMMAND_LINE_ERROR)
command_line_error ==
  [status |-> COMMAND_LINE_ERROR,
   stderr |-> <<"Usage: ./uqfacedetect connectionlimit maxsize [portnumber]\n">>]

CmdLineParams(connectionLimit_, maxSize_, portnum, portnumGiven) ==
  [connectionLimit |-> connectionLimit_, maxSize |-> maxSize_, portnum |-> portnum,
   portnumGiven |-> portnumGiven]

\* parse_command_line taking an empty port argument for no port argument
parse_command_line_empty_port(argv) ==
  LET argc == Len(argv) IN
    IF argc < PORTNUM_INDEX \/ argc > EXTRA_CMD_LINE_ARGS THEN {command_line_error}
    ELSE IF ~valid_cmd_line_number(Arg(argv, 1)) THEN {command_line_error}
    ELSE IF ~valid_cmd_line_number(Arg(argv, 2)) THEN {command_line_error}
    ELSE IF Gt32(Decimal(Arg(argv, 2)), UINT32_MAX) THEN {command_line_error}
    ELSE UNION {
      IF Gt32(connectionLimit_, <<0, MAX_CONNECTIONS>>) THEN {command_line_error}
      ELSE LET maxSize_ == parse_maxSize(Decimal(Arg(argv, 2))) IN
        IF argc # PORTNUM_INCLUDED \/ Arg(argv, PORTNUM_INDEX) = <<>>
          THEN {CmdLineParams(connectionLimit_, maxSize_, <<"0">>, 0)}
        ELSE IF ~valid_cmd_line_number(Arg(argv, PORTNUM_INDEX))
          THEN {CmdLineParams(connectionLimit_, maxSize_, Arg(argv, PORTNUM_INDEX), 1)}
        ELSE {IF port = <<0, 0>>
                THEN CmdLineParams(connectionLimit_, maxSize_, <<"0">>, 0)
                ELSE CmdLineParams(connectionLimit_, maxSize_,
                                   Arg(argv, PORTNUM_INDEX), 1) :
              port \in atoi(Arg(argv, PORTNUM_INDEX))}
      : connectionLimit_ \in atoi(Arg(argv, 1))}

\* parse_command_line: what it can return or exit with, for a maxsize of less
\* than 2^47 (strtoul sets no ERANGE); more than one outcome where atoi is
\* called on a number an int cannot hold
parse_command_line(argv) ==
  LET argc == Len(argv) IN
    IF argc < PORTNUM_INDEX \/ argc > EXTRA_CMD_LINE_ARGS THEN {command_line_error}
    ELSE IF ~valid_cmd_line_number(Arg(argv, 1)) THEN {command_line_error}
    ELSE IF ~valid_cmd_line_number(Arg(argv, 2)) THEN {command_line_error}
    ELSE IF Gt32(Decimal(Arg(argv, 2)), UINT32_MAX) THEN {command_line_error}
    ELSE UNION {
      IF Gt32(connectionLimit_, <<0, MAX_CONNECTIONS>>) THEN {command_line_error}
      ELSE LET maxSize_ == parse_maxSize(Decimal(Arg(argv, 2))) IN
        IF argc # PORTNUM_INCLUDED
          THEN {CmdLineParams(connectionLimit_, maxSize_, <<"0">>, 0)}
        ELSE IF Arg(argv, PORTNUM_INDEX) = <<>> THEN {command_line_error}
        ELSE IF ~valid_cmd_line_number(Arg(argv, PORTNUM_INDEX))
          THEN {CmdLineParams(connectionLimit_, maxSize_, Arg(argv, PORTNUM_INDEX), 1)}
        ELSE {IF port = <<0, 0>>
                THEN CmdLineParams(connectionLimit_, maxSize_, <<"0">>, 0)
                ELSE CmdLineParams(connectionLimit_, maxSize_,
                                   Arg(argv, PORTNUM_INDEX), 1) :
              port \in atoi(Arg(argv, PORTNUM_INDEX))}
      : connectionLimit_ \in atoi(Arg(argv, 1))}

\* main before parse_command_line; listen is the port of the listening socket
\* once there is one
Starting(argv) ==
  [pc |-> "parse_command_line", argv |-> argv, params |-> <<>>, status |-> -1,
   stderr |-> <<>>, listen |-> ""]

\* main: parse_command_line
MainParseCommandLine ==
  /\ boot.pc = "parse_command_line"
  /\ \E got \in parse_command_line(boot.argv) :
       IF got = command_line_error
         THEN boot' = [boot EXCEPT !.pc = "exited", !.status = got.status,
                                   !.stderr = got.stderr]
         ELSE boot' = [boot EXCEPT !.pc = "check_image_file", !.params = got]
  /\ UNCHANGED <<client, peer, config, sem, stats, statsLock, fileLock, cascadeLock, scratch,
                 acceptorVars, wk, trace, reporterVars>>

\* main: check_image_file and check_cascade_classifier, each exiting when the
\* file or a classifier cannot be opened
MainCheckFiles ==
  /\ boot.pc = "check_image_file"
  /\ \E failed \in {0, IMAGE_FILE_ERROR, CASCADE_CLASSIFIER} :
       IF failed = 0
         THEN boot' = [boot EXCEPT !.pc = "check_port"]
         ELSE boot' = [boot EXCEPT
                         !.pc = "exited", !.status = failed,
                         !.stderr = <<IF failed = IMAGE_FILE_ERROR
                                        THEN "uqfacedetect: unable to open image file for writing\n"
                                        ELSE "uqfacedetect: unable to load a cascade classifier\n">>]
  /\ UNCHANGED <<client, peer, config, sem, stats, statsLock, fileLock, cascadeLock, scratch,
                 acceptorVars, wk, trace, reporterVars>>

\* main: check_port and print_port. Service "0" binds a port of the kernel's
\* choice; another number binds that port (modulo 2^16) when it can; anything
\* else, and a port that cannot be bound, is a port_error
MainCheckPort ==
  /\ boot.pc = "check_port"
  /\ LET port == boot.params.portnum
         port_error ==
           [boot EXCEPT !.pc = "exited", !.status = PORT_ERROR,
                        !.stderr = <<"uqfacedetect: unable to listen on given port \"",
                                     port, "\"\n">>]
         bound(to) == [boot EXCEPT !.pc = "new_connection", !.listen = to,
                                   !.stderr = <<to, "\n">>]
     IN \/ boot' = port_error
        \/ /\ valid_cmd_line_number(port)
           /\ boot' = bound(IF Decimal(port)[2] = 0 THEN "ephemeral" ELSE "given")
  /\ UNCHANGED <<client, peer, config, sem, stats, statsLock, fileLock, cascadeLock, scratch,
                 acceptorVars, wk, trace, reporterVars>>

\* the command lines of a run
LimitArgs ==
  {<<>>, <<"0">>, <<"5">>, <<"+", "7">>, <<"1", "0", "0", "0", "0">>,
   <<"1", "0", "0", "0", "1">>, <<"-", "1">>, <<"1", "x">>, <<"+">>,
   <<"2", "1", "4", "7", "4", "8", "3", "6", "4", "7">>,
   <<"2", "1", "4", "7", "4", "8", "3", "6", "4", "8">>,
   <<"4", "2", "9", "4", "9", "6", "7", "2", "9", "6">>,
   <<"4", "2", "9", "4", "9", "6", "7", "2", "9", "7">>}

SizeArgs ==
  {<<"0">>, <<"1", "0">>, <<"x">>,
   <<"4", "2", "9", "4", "9", "6", "7", "2", "9", "5">>,
   <<"4", "2", "9", "4", "9", "6", "7", "2", "9", "6">>}

PortArgs ==
  {<<>>, <<"0">>, <<"0", "0">>, <<"+", "0">>, <<"8", "0", "8", "0">>, <<"h", "t", "t", "p">>,
   <<"4", "2", "9", "4", "9", "6", "7", "2", "9", "6">>}

CommandLines ==
  {<<<<"u">>>>, <<<<"u">>, <<"0">>>>, <<<<"u">>, <<"0">>, <<"0">>, <<"0">>, <<"0">>>>}
  \cup {<<<<"u">>, limit, size>> : limit \in LimitArgs, size \in SizeArgs}
  \cup {<<<<"u">>, limit, size, port>> :
          limit \in LimitArgs, size \in SizeArgs, port \in PortArgs}

(* ---------------------------- specification ---------------------------- *)
\* the steps of worker w that read from a client of profile C
Reads(w, C) ==
  \/ check_prefix(w, C)
  \/ check_operation(w, C)
  \/ determine_image_size(w, C)
  \/ read_image(w, C)
  \/ create_replacement_size(w, C)
  \/ create_replacement_read(w, C)

\* the steps of worker w on a request whose prefix is the magic
Serves(w) ==
  \/ create_frame_lock(w)
  \/ create_frame_write(w)
  \/ create_frame_load(w)
  \/ find_faces_lock(w)
  \/ find_faces_detect(w)
  \/ draw_faces_lock(w)
  \/ draw_faces_detect(w)
  \/ create_replacement_lock(w)
  \/ create_replacement_write(w)
  \/ create_replacement_load(w)
  \/ output_face_detection_lock(w)
  \/ output_face_detection_save(w)
  \/ output_face_detection_send(w)
  \/ detect_stats_lock(w)
  \/ detect_stats_inc(w)
  \/ replace_stats_lock(w)
  \/ replace_stats_inc(w)
  \/ task_executor_exit(w)
  \/ update_client_stats_lock(w)
  \/ update_client_stats(w)

\* the steps of worker w on the shared state
Works(w) ==
  \/ bad_request_lock(w)
  \/ bad_request(w)
  \/ Serves(w)

AcceptorStep(conns) ==
  \/ AcceptorSemWait
  \/ AcceptorAccept(conns)
  \/ AcceptorLock
  \/ AcceptorIncrement
  \/ AcceptorCreate

ReporterStep ==
  \/ Sighup
  \/ ReporterSigwait
  \/ ReporterLock
  \/ ReporterPrint
  \/ ReporterUnlock

\* The server with NumConns clients that frame their requests correctly (or
\* send a wrong prefix), the reporter and SIGHUPs: every interleaving of the
\* threads.
Init == InitWith(0..MaxLimit, {U32(0)}) /\ client = ClientOff

Next ==
  \/ AcceptorStep(NumConns)
  \/ ReporterStep
  \/ \E w \in Workers : Reads(w, FramedClient)
  \/ \E w \in Workers : Works(w)

Spec == Init /\ [][Next]_vars

\* The server with one client that may send any bytes and close at any point.
InitConn == InitWith({0, 1}, {U32(0), U32(2)}) /\ client = ClientOff

NextConn ==
  \/ AcceptorStep(1)
  \/ Reads(1, AnyClient)
  \/ Works(1)

SpecConn == InitConn /\ [][NextConn]_vars

\* a client that is gone: every read meets EOF
GoneClient ==
  [prefix |-> {<<>>}, operation |-> {<<>>}, size |-> {<<>>}, image |-> {<<>>},
   image2 |-> {<<>>}, reqs |-> 0]

\* what the client of connection w puts on the wire
PeerClient(w) == IF peer[w] = "reset" THEN GoneClient ELSE FramedClient

\* the connection of worker w is being served
Connected(w) == wk[w].pc \notin {"unborn", "done"}

\* the client of connection w stops reading from its socket
PeerStall(w) ==
  /\ Connected(w)
  /\ peer[w] = "open"
  /\ peer' = [peer EXCEPT ![w] = "stalled"]
  /\ UNCHANGED <<client, boot, config, sem, stats, statsLock, fileLock, cascadeLock,
                 scratch, acceptorVars, wk, trace, reporterVars>>

\* the client of connection w goes away: its socket is closed or reset
PeerReset(w) ==
  /\ Connected(w)
  /\ peer[w] # "reset"
  /\ peer' = [peer EXCEPT ![w] = "reset"]
  /\ UNCHANGED <<client, boot, config, sem, stats, statsLock, fileLock, cascadeLock,
                 scratch, acceptorVars, wk, trace, reporterVars>>

\* The server with NumConns clients that frame their requests correctly and
\* may stop reading or go away at any point.
InitPeer == InitWith(0..MaxLimit, {U32(0)}) /\ client = ClientOff

NextPeer ==
  \/ AcceptorStep(NumConns)
  \/ \E w \in Workers : PeerStall(w)
  \/ \E w \in Workers : PeerReset(w)
  \/ \E w \in Workers : Reads(w, PeerClient(w))
  \/ \E w \in Workers : Works(w)

SpecPeer == InitPeer /\ [][NextPeer]_vars

\* uqfaceclient on its own, for every choice of --replacefile and of the
\* lengths of its input files.
InitClient == InitWith({0}, {U32(0)}) /\ client \in ClientStarts

NextClient ==
  \/ ClientCreateRequest
  \/ ClientSend

SpecClient == InitClient /\ [][NextClient]_vars

\* uqfaceclient and the server on one connection: the worker reads what the
\* client sent once it is sent. The client always sends the magic, so the
\* worker never takes the path of bad_request.
InitWire == InitWith({0, 1}, {U32(0), U32(2)}) /\ client \in WireStarts

NextWire ==
  \/ ClientCreateRequest
  \/ ClientSend
  \/ AcceptorStep(1)
  \/ client.pc = "recieve_response" /\ Reads(1, WireClient(1))
  \/ Serves(1)

SpecWire == InitWire /\ [][NextWire]_vars

\* uqfaceclient with its request sent, for every response a server may send.
InitReply == InitWith({0}, {U32(0)}) /\ client \in ReplyStarts

NextReply == ClientRecieveResponse

SpecReply == InitReply /\ [][NextReply]_vars

\* main of the server from its command line to the listening socket.
InitArgs ==
  /\ boot \in {Starting(argv) : argv \in CommandLines}
  /\ connectionLimit = 0
  /\ maxSize = U32(0)
  /\ sem = 0
  /\ stats = NoStats
  /\ statsLock = Free /\ fileLock = Free /\ cascadeLock = Free
  /\ scratch = <<>>
  /\ accPc = "main"
  /\ accepted = 0
  /\ wk = [w \in Workers |-> Unborn]
  /\ trace = [w \in Workers |-> <<>>]
  /\ repPc = "sigwait"
  /\ sighups = 0
  /\ pending = FALSE
  /\ report = <<>>
  /\ peer = [w \in Workers |-> "open"]
  /\ client = ClientOff

NextArgs ==
  \/ MainParseCommandLine
  \/ MainCheckFiles
  \/ MainCheckPort

SpecArgs == InitArgs /\ [][NextArgs]_vars

\* The server without the reporter: the client of the first connection sends
\* several requests, the clients of the others one request each.
InitRepeat == InitWith(0..MaxLimit, {U32(0)}) /\ client = ClientOff

NextRepeat ==
  \/ AcceptorStep(NumConns)
  \/ Reads(1, RepeatClient)
  \/ \E w \in Workers \ {1} : Reads(w, FramedClient)
  \/ \E w \in Workers : Works(w)

SpecRepeat == InitRepeat /\ [][NextRepeat]_vars

\* the steps a thread takes holding the stats mutex, each ending with the unlock
StatsSection ==
  \/ AcceptorIncrement
  \/ \E w \in Workers :
       bad_request(w) \/ detect_stats_inc(w) \/ replace_stats_inc(w) \/ update_client_stats(w)

\* The server of Spec under a scheduler that lets the reporter run when it can
\* and lets a thread that holds the stats mutex reach its unlock; the clients
\* and the other steps of the workers may take for ever.
SpecReport ==
  /\ Init
  /\ [][Next]_vars
  /\ WF_vars(ReporterSigwait)
  /\ WF_vars(ReporterLock)
  /\ WF_vars(ReporterPrint)
  /\ WF_vars(ReporterUnlock)
  /\ WF_vars(StatsSection)

\* The server under a connection limit, with NumConns clients waiting to
\* connect: a thread that can run does run, and the time a client takes to
\* send or to close is not bounded.
InitAdmit == InitWith(1..MaxLimit, {U32(0)}) /\ client = ClientOff

NextAdmit ==
  \/ AcceptorStep(NumConns)
  \/ \E w \in Workers : Reads(w, FramedClient)
  \/ \E w \in Workers : Works(w)

SpecAdmit ==
  /\ InitAdmit
  /\ [][NextAdmit]_vars
  /\ WF_vars(AcceptorStep(NumConns))
  /\ \A w \in Workers : WF_vars(Works(w))

(* ------------------------- reading the traces -------------------------- *)
Threads == Workers \cup {Acceptor, Reporter}

IsRead(e, field) == e.ev = "read" /\ e.tag = field

IsFrame(e, operation) == e.ev = "send" /\ e.tag = "frame" /\ e.hdr[5] = operation

IsFile(e) == e.ev = "send" /\ e.tag = "file"

\* the positions of a trace that hold an event with the property P
Where(t, P(_)) == {i \in 1..Len(t) : P(t[i])}

IsErrorFrame(e) == IsFrame(e, ERROR_OPERATION)

IsImageFrame(e) == IsFrame(e, IMAGE_OPERATION)

IsSend(e) == e.ev = "send"

IsPrefixRead(e) == IsRead(e, "prefix")

\* the worker has left the loop of task_executor
Left(w) == wk[w].pc \in {"exit", "update_client_stats", "update_client_stats_dec", "done"}

(* ------------------------------- claims -------------------------------- *)

\* C1: with a finite connectionLimit L > 0, currClients is at most L in every
\* reachable state, and no snapshot the reporter prints shows more than L.
C1_CurrentClientsWithinLimit ==
  connectionLimit > 0 =>
    /\ ~Gt32(stats.currClients, U32(connectionLimit))
    /\ \A k \in 1..Len(report) : ~Gt32(report[k][1], U32(connectionLimit))

\* a worker is executing cvHaarDetectObjects (faces in find_faces, eyes in draw_faces)
InDetector(w) == wk[w].pc \in {"find_faces_detect", "draw_faces_detect"}

\* C2: at most one worker is inside the detector at any instant, and a worker
\* inside the detector holds the cascade mutex.
C2_OneWorkerInDetector ==
  /\ \A w \in Workers : InDetector(w) => cascadeLock = w
  /\ Cardinality({w \in Workers : InDetector(w)}) <= 1

\* C2 witness: one worker detects eyes while another waits for the cascade mutex
C2_Witness ==
  \E v, w \in Workers :
    /\ wk[v].pc = "draw_faces_detect"
    /\ wk[w].pc = "find_faces"

Held(t) ==
  {m \in {"file", "cascade", "stats"} :
     \/ m = "file" /\ fileLock = t
     \/ m = "cascade" /\ cascadeLock = t
     \/ m = "stats" /\ statsLock = t}

\* the mutex a worker is blocked on, if any
WaitsFor(w) ==
  CASE wk[w].pc \in {"create_frame", "create_replacement_lock", "output_face_detection"}
         /\ fileLock # Free -> fileLock
    [] wk[w].pc \in {"find_faces", "draw_faces"} /\ cascadeLock # Free -> cascadeLock
    [] wk[w].pc \in {"bad_request", "detect_stats", "replace_stats", "update_client_stats"}
         /\ statsLock # Free -> statsLock
    [] OTHER -> Free

\* C3: no thread ever holds two of the file, cascade and stats mutexes at once,
\* and no worker waits for a mutex whose owner has ended or itself waits for a
\* mutex.
C3_NoThreadHoldsTwoMutexes ==
  /\ \A t \in Threads : Cardinality(Held(t)) <= 1
  /\ \A w \in Workers :
       WaitsFor(w) \in Workers =>
         wk[WaitsFor(w)].pc # "done" /\ WaitsFor(WaitsFor(w)) = Free

(* ------------------------ requests in a trace -------------------------- *)
\* a request starts where the worker reads a prefix; its events run up to the
\* next read of a prefix
Starts(t) == Where(t, IsPrefixRead)

SegEnd(t, i) ==
  LET later == {j \in Starts(t) : j > i} IN
    IF later = {} THEN Len(t) ELSE (CHOOSE j \in later : \A k \in later : j <= k) - 1

Seg(t, i) == SubSeq(t, i, SegEnd(t, i))

HasRead(s, field) == \E k \in 1..Len(s) : IsRead(s[k], field)

Arrival(s, field) == s[CHOOSE k \in 1..Len(s) : IsRead(s[k], field)].bytes

HasFault(s) == \E k \in 1..Len(s) : s[k].ev = "fault"

SendsOf(s) == SelectSeq(s, IsSend)

\* the worker is done with the request that starts at i: it reads the next
\* prefix, is about to, or has left its loop
Over(w, i) == SegEnd(trace[w], i) < Len(trace[w]) \/ wk[w].pc = "check_prefix" \/ Left(w)

\* a response frame as the protocol lays it out, for a payload shorter than 256 bytes
FrameOf(operation, text, bytes) ==
  Ev("send", "frame",
     <<49, 114, 16, 35, operation, Len(text) + Len(bytes), 0, 0, 0>>, text, bytes)

\* C4: after an operation-3 frame the worker shuts down the write side, closes
\* the socket and leaves its loop; it does nothing more on that socket.
C4_ErrorFrameEndsConnection ==
  \A w \in Workers : \A i \in Where(trace[w], IsErrorFrame) :
    /\ Len(trace[w]) = i + 2
    /\ trace[w][i + 1] = ShutdownEv
    /\ trace[w][i + 2] = CloseEv
    /\ Left(w)

\* C4 witness: a worker has ended after an error frame that followed a served request
C4_Witness ==
  \E w \in Workers :
    /\ wk[w].pc = "done"
    /\ Where(trace[w], IsImageFrame) # {}
    /\ Where(trace[w], IsErrorFrame) # {}

\* the reads of a request so far are those of a well-formed request on an image
\* with a face (and, for a replacement, a second image the codec accepts), and
\* neither the scratch file nor the detector storage failed
GoodSoFar(s) ==
  /\ s[1].bytes = Magic
  /\ HasRead(s, "operation") => Arrival(s, "operation") \in {<<0>>, <<1>>}
  /\ HasRead(s, "size1") =>
       /\ Len(Arrival(s, "size1")) = 4
       /\ le32toh(Arrival(s, "size1")) # U32(0)
       /\ ~Gt32(le32toh(Arrival(s, "size1")), maxSize)
  /\ HasRead(s, "image1") =>
       /\ U32(Len(Arrival(s, "image1"))) = le32toh(Arrival(s, "size1"))
       /\ Arrival(s, "image1")[1] # 0
       /\ \E k \in 1..Len(Arrival(s, "image1")) : Arrival(s, "image1")[k] = 2
  /\ HasRead(s, "size2") =>
       /\ Len(Arrival(s, "size2")) = 4
       /\ le32toh(Arrival(s, "size2")) # U32(0)
       /\ ~Gt32(le32toh(Arrival(s, "size2")), maxSize)
  /\ HasRead(s, "image2") =>
       /\ U32(Len(Arrival(s, "image2"))) = le32toh(Arrival(s, "size2"))
       /\ Arrival(s, "image2")[1] # 0
  /\ ~HasFault(s)

\* the whole of a good request has been read
FullyRead(s) ==
  /\ HasRead(s, "image1")
  /\ Arrival(s, "operation") = <<1>> => HasRead(s, "image2")

\* the image a good request is to be answered with: every face circled, or
\* every face overwritten with the second image
AnswerOf(s) ==
  LET img == Arrival(s, "image1") IN
    [k \in 1..Len(img) |->
       IF img[k] # 2 THEN img[k]
       ELSE IF Arrival(s, "operation") = <<0>> THEN 3
       ELSE Arrival(s, "image2")[1]]

\* C5: as long as the requests read on a connection are well-formed requests on
\* images with a face, the worker answers each with exactly one operation-2
\* frame made from that request, before it reads the next prefix, and neither
\* closes the socket nor leaves its loop.
C5_RequestsAnsweredInOrder ==
  \A w \in Workers : \A i \in Starts(trace[w]) :
    (\A j \in Starts(trace[w]) : j <= i => GoodSoFar(Seg(trace[w], j))) =>
      LET s == Seg(trace[w], i) IN
        /\ \A k \in 1..SegEnd(trace[w], i) :
             trace[w][k].ev \notin {"shutdown", "close"} /\ ~IsErrorFrame(trace[w][k])
               /\ ~IsFile(trace[w][k])
        /\ Len(SendsOf(s)) <= 1
        /\ Over(w, i) =>
             /\ FullyRead(s)
             /\ s[Len(s)] = FrameOf(2, "", AnswerOf(s))
             /\ Len(SendsOf(s)) = 1
             /\ SegEnd(trace[w], i) = Len(trace[w]) => ~Left(w)

\* C5 witness: two good requests, a detection and a replacement, both answered
C5_Witness ==
  \E w \in Workers :
    /\ wk[w].pc = "check_prefix"
    /\ Cardinality(Where(trace[w], IsImageFrame)) = 2
    /\ \A j \in Starts(trace[w]) : GoodSoFar(Seg(trace[w], j))
    /\ \E j \in Starts(trace[w]) : Arrival(Seg(trace[w], j), "operation") = <<1>>
    /\ \E j \in Starts(trace[w]) : Arrival(Seg(trace[w], j), "operation") = <<0>>

\* C6: when the read of a prefix meets EOF with no byte read, the worker writes
\* no operation-3 frame afterwards.
C6_EofAtBoundaryNoErrorFrame ==
  \A w \in Workers : \A i \in Starts(trace[w]) :
    trace[w][i].bytes = <<>> => \A j \in Where(trace[w], IsErrorFrame) : j < i

\* four prefix bytes were read and they are not the magic
IsBadPrefixRead(e) == IsPrefixRead(e) /\ Len(e.bytes) = 4 /\ e.bytes # <<49, 114, 16, 35>>

\* the workers that sent the canned file
SentFile == {w \in Workers : Where(trace[w], IsFile) # {}}

\* C7: four prefix bytes that differ from the magic, on the first or a later
\* request, are answered with the canned file and no operation-3 frame, then
\* shutdown and close; badRequests counts exactly these events.
C7_BadPrefixSendsFile ==
  /\ \A w \in Workers : \A i \in Where(trace[w], IsBadPrefixRead) :
       /\ Where(trace[w], IsErrorFrame) = {}
       /\ wk[w].pc \notin {"bad_request", "bad_request_inc"} =>
            /\ SubSeq(trace[w], i + 1, Len(trace[w]))
                 = <<send_prefix_file, ShutdownEv, CloseEv>>
            /\ Left(w)
  /\ \A w \in Workers : \A j \in Where(trace[w], IsFile) :
       j > 1 /\ IsBadPrefixRead(trace[w][j - 1])
  /\ stats.badRequests = U32(Cardinality(SentFile))

\* C7 witness: a wrong prefix on a later request of a connection got the file
C7_Witness ==
  \E w \in Workers :
    /\ wk[w].pc = "done"
    /\ Where(trace[w], IsImageFrame) # {}
    /\ Where(trace[w], IsFile) # {}
    /\ stats.badRequests = U32(1)

\* one to three prefix bytes arrived before the peer closed
IsShortPrefixRead(e) == IsPrefixRead(e) /\ Len(e.bytes) \in 1..3

\* C8: one to three prefix bytes and then EOF are answered with the
\* operation-3 frame 'invalid message', shutdown and close, whatever the bytes
\* are; the canned file is not sent and badRequests does not count the event.
C8_ShortPrefixIsInvalidMessage ==
  \A w \in Workers : \A i \in Where(trace[w], IsShortPrefixRead) :
    /\ SubSeq(trace[w], i + 1, Len(trace[w]))
         = <<FrameOf(3, "invalid message", <<>>), ShutdownEv, CloseEv>>
    /\ w \notin SentFile
    /\ Left(w)
    /\ stats.badRequests = U32(Cardinality(SentFile))

\* C8 witness: a worker has ended after bytes that cannot start the magic
C8_Witness ==
  \E w \in Workers :
    /\ wk[w].pc = "done"
    /\ \E i \in Where(trace[w], IsShortPrefixRead) : trace[w][i].bytes = <<0, 0>>

\* the reply the first failing check of a request calls for, "" while none of
\* prefix, operation, length, payload, codec and detector has failed
FirstFailure(s) ==
  IF Len(s[1].bytes) < 4 THEN "invalid message"
  ELSE IF s[1].bytes # <<49, 114, 16, 35>> THEN "file"
  ELSE IF ~HasRead(s, "operation") THEN ""
  ELSE IF Len(Arrival(s, "operation")) < 1 THEN "invalid message"
  ELSE IF Arrival(s, "operation")[1] \notin {0, 1} THEN "invalid operation type"
  ELSE IF ~HasRead(s, "size1") THEN ""
  ELSE IF Len(Arrival(s, "size1")) < 4 THEN "invalid message"
  ELSE IF le32toh(Arrival(s, "size1")) = U32(0) THEN "image is 0 bytes"
  ELSE IF Gt32(le32toh(Arrival(s, "size1")), maxSize) THEN "image too large"
  ELSE IF ~HasRead(s, "image1") THEN ""
  ELSE IF Gt32(le32toh(Arrival(s, "size1")), U32(Len(Arrival(s, "image1"))))
    THEN "invalid message"
  ELSE IF Arrival(s, "image1")[1] = 0 THEN "invalid image"
  ELSE IF \A k \in 1..Len(Arrival(s, "image1")) : Arrival(s, "image1")[k] # 2
    THEN "no faces detected in image"
  ELSE ""

ErrorTexts ==
  {"invalid message", "invalid operation type", "image is 0 bytes", "image too large",
   "invalid image", "no faces detected in image"}

\* what a reply says: the text of an operation-3 frame, "file" for the canned
\* file, "" for an operation-2 frame
ReplyKind(e) == IF IsFile(e) THEN "file" ELSE IF IsErrorFrame(e) THEN e.text ELSE ""

\* C9: every request (a read of the prefix that got at least one byte) gets
\* exactly one reply, and it is the one of the first
\* check that fails among prefix, operation, length, payload, codec and
\* detector: the canned file or the operation-3 frame with that check's text,
\* and an error of the second image or an operation-2 frame only when none of
\* them fails (barring a failure of the scratch file or of the detector
\* storage); every operation-3 frame carries one of the six texts with its byte
\* count as length and nothing after it.
C9_OneReplyByFirstFailure ==
  \A w \in Workers :
    /\ \A i \in {j \in Starts(trace[w]) : trace[w][j].bytes # <<>>} :
         LET s == Seg(trace[w], i) IN
           /\ Len(SendsOf(s)) <= 1
           /\ Over(w, i) => Len(SendsOf(s)) = 1
           /\ HasRead(s, "size2") => FirstFailure(s) = ""
           /\ (Len(SendsOf(s)) = 1 /\ ~HasFault(s) /\ ~HasRead(s, "size2")) =>
                /\ ReplyKind(SendsOf(s)[1]) = FirstFailure(s)
                /\ SendsOf(s)[1] \in {send_prefix_file, FrameOf(3, FirstFailure(s), <<>>),
                                      FrameOf(2, "", SendsOf(s)[1].bytes)}
    /\ \A j \in Where(trace[w], IsErrorFrame) :
         /\ trace[w][j].text \in ErrorTexts
         /\ trace[w][j] = FrameOf(3, trace[w][j].text, <<>>)

\* C9 witness: a served request, then one whose length is over the limit
C9_Witness ==
  \E w \in Workers :
    /\ wk[w].pc = "done"
    /\ Where(trace[w], IsImageFrame) # {}
    /\ \E j \in Where(trace[w], IsErrorFrame) : trace[w][j].text = "image too large"

\* the requests of a trace with the given operation byte that were answered
\* with an operation-2 frame
Served(t, operation) ==
  {i \in Starts(t) :
     /\ HasRead(Seg(t, i), "operation")
     /\ Arrival(Seg(t, i), "operation") = <<operation>>
     /\ \E k \in 1..Len(Seg(t, i)) : IsImageFrame(Seg(t, i)[k])}

RECURSIVE SumOver(_, _)
SumOver(f, S) ==
  IF S = {} THEN 0 ELSE LET x == CHOOSE y \in S : TRUE IN f[x] + SumOver(f, S \ {x})

\* C10: when a worker is about to read a prefix, it has added to faceDetections
\* once per detection it answered with an operation-2 frame and to
\* faceReplacements once per replacement so answered; it never adds for a
\* request answered otherwise, and the counters hold what the workers added.
C10_CountersMatchServedRequests ==
  /\ \A w \in Workers :
       /\ wk[w].pc = "check_prefix" =>
            /\ wk[w].det = Cardinality(Served(trace[w], 0))
            /\ wk[w].rep = Cardinality(Served(trace[w], 1))
       /\ wk[w].det <= Cardinality(Served(trace[w], 0))
       /\ wk[w].rep <= Cardinality(Served(trace[w], 1))
  /\ stats.faceDetections = U32(SumOver([w \in Workers |-> wk[w].det], Workers))
  /\ stats.faceReplacements = U32(SumOver([w \in Workers |-> wk[w].rep], Workers))

\* C10 witness: a worker about to read a prefix after a detection and a replacement
C10_Witness ==
  \E w \in Workers :
    /\ wk[w].pc = "check_prefix"
    /\ wk[w].det = 1
    /\ wk[w].rep = 1

(* ------------------------ connection accounting ------------------------ *)
Add32(a, b) ==
  LET lo == a[2] + b[2] IN <<(a[1] + b[1] + lo \div HALF) % HALF, lo % HALF>>

\* the connections the acceptor has added to currClients: those accept() has
\* returned, less the one it has accepted and not counted yet
Counted == accepted - (IF accPc \in {"stats_lock", "stats_inc"} THEN 1 ELSE 0)

\* the row of the report the reporter is printing, <<>> when it has printed
\* nothing since it took the mutex
Printing ==
  IF report # <<>> /\ (repPc = "unlock"
                         \/ (repPc = "print" /\ Len(report[Len(report)]) < Len(Counters)))
    THEN report[Len(report)] ELSE <<>>

\* C11 as stated: whenever the stats mutex is free, currClients + prevClients
\* is the number of connections accept() has returned so far.
C11_ClientsSumToAccepted ==
  statsLock = Free => Add32(stats.currClients, stats.prevClients) = U32(accepted)

\* C11, amended: whenever the stats mutex is free, currClients + prevClients
\* is the number of connections accept() has returned, less the one the
\* acceptor has accepted and not yet added to currClients; a report whose first
\* two counters are printed shows that sum while the reporter holds the mutex.
C11_ClientsSumToCounted ==
  /\ statsLock = Free => Add32(stats.currClients, stats.prevClients) = U32(Counted)
  /\ Len(Printing) >= 2 => Add32(Printing[1], Printing[2]) = U32(Counted)

\* C11 witness: the mutex is free, one connection is open and one has completed
C11_Witness ==
  /\ statsLock = Free
  /\ accepted = 2
  /\ stats.currClients = U32(1)
  /\ stats.prevClients = U32(1)

\* the counters that only count up: all but currClients
Cumulative == {k \in 1..Len(Counters) : Counters[k] # "currClients"}

\* C12: of any two reports, the later one shows no smaller value than the
\* earlier one for prevClients, faceDetections, faceReplacements and badRequests.
C12_CountersNeverDecrease ==
  \A i, j \in 1..Len(report) :
    i < j => \A k \in Cumulative :
      k <= Len(report[j]) => ~Gt32(report[i][k], report[j][k])

\* C12 witness: two full reports, the later with more completed clients and
\* more detections than the earlier
C12_Witness ==
  /\ Len(report) = 2
  /\ Len(report[2]) = Len(Counters)
  /\ Gt32(report[2][2], report[1][2])
  /\ Gt32(report[2][3], report[1][3])

\* a step that writes a counter is taken by the thread that holds the stats mutex
WritesUnderMutex ==
  stats' # stats =>
    \/ statsLock = Acceptor /\ accPc' # accPc
    \/ statsLock \in Workers /\ wk'[statsLock] # wk[statsLock]

\* a step that prints a counter is taken by the reporter holding the stats
\* mutex, and it keeps the mutex
ReadsUnderMutex == report' # report => statsLock = Reporter /\ statsLock' = Reporter

\* what is printed of a report so far is what the counters hold now: no counter
\* has changed since the reporter took the mutex
RowIsSnapshot ==
  /\ Printing # <<>> => statsLock = Reporter
  /\ \A k \in 1..Len(Printing) : Printing[k] = stats[Counters[k]]

\* C13: every write of a counter is made by the thread that holds the stats
\* mutex, the reporter reads the counters holding it, and it reads the five
\* counters of a report in one critical section, so a report shows the
\* counters as they were at one instant.
C13_CountersUnderStatsMutex ==
  /\ []RowIsSnapshot
  /\ [][WritesUnderMutex /\ ReadsUnderMutex]_vars

\* C13 witness: the reporter is part-way through a report while a worker that
\* has left its loop waits for the stats mutex to update the client counters
C13_Witness ==
  /\ Len(Printing) \in 1..(Len(Counters) - 1)
  /\ \E w \in Workers : wk[w].pc = "update_client_stats"

(* --------------------------- leaving the loop -------------------------- *)
\* what a step of worker w does to the admission semaphore and to the client
\* counters, by where the worker stands
ExitsOnce(w) ==
  wk'[w] # wk[w] =>
    CASE wk[w].pc = "exit" ->
           /\ wk'[w].pc = "update_client_stats"
           /\ sem' = IF connectionLimit > 0 THEN sem + 1 ELSE sem
           /\ stats' = stats
      [] wk[w].pc = "update_client_stats" ->
           /\ wk'[w].pc = "update_client_stats_dec"
           /\ sem' = sem
           /\ stats' = stats
      [] wk[w].pc = "update_client_stats_dec" ->
           /\ wk'[w].pc = "done"
           /\ sem' = sem
           /\ stats' = [stats EXCEPT !.currClients = Dec32(@), !.prevClients = Inc32(@)]
      [] wk[w].pc = "done" -> FALSE
      [] OTHER ->
           /\ wk'[w].pc \in {"exit", "update_client_stats", "update_client_stats_dec", "done"}
                => wk'[w].pc = "exit"
           /\ sem' = sem
           /\ stats'.currClients = stats.currClients
           /\ stats'.prevClients = stats.prevClients

\* C14: a worker that leaves its request loop, whatever made it leave, releases
\* one admission slot when a limit is configured, then decrements currClients
\* and increments prevClients, each exactly once, and does nothing after that;
\* while it is in its loop it does none of the three.
C14_ExitPathRunsOnce == [][\A w \in Workers : ExitsOnce(w)]_vars

\* C14 witness: under a limit, a worker has ended after a fault in the second
\* image of a replacement; its slot is back and it is counted as completed
C14_Witness ==
  \E w \in Workers :
    /\ wk[w].pc = "done"
    /\ \E k \in 1..Len(trace[w]) : IsRead(trace[w][k], "size2")
    /\ Where(trace[w], IsErrorFrame) # {}
    /\ connectionLimit = 1
    /\ sem = 1
    /\ stats.currClients = U32(0)
    /\ stats.prevClients = U32(1)

(* ------------------------------ admission ------------------------------ *)
\* the workers that hold an admission slot: created, and not past the sem_post
SlotHolders ==
  {w \in Workers :
     wk[w].pc \notin {"unborn", "update_client_stats", "update_client_stats_dec", "done"}}

\* the acceptor has taken a slot for the connection it is accepting or handing
\* to a new worker
AcceptorHolds == IF accPc \in {"accept", "stats_lock", "stats_inc", "create"} THEN 1 ELSE 0

\* C15: with a finite connectionLimit L, the semaphore is never negative, its
\* value plus the slots held (by the acceptor for a connection it is admitting,
\* or by a worker that has not released its slot) is L, and at most L workers
\* hold a slot.
C15_SlotsAddUpToLimit ==
  connectionLimit > 0 =>
    /\ sem >= 0
    /\ sem + AcceptorHolds + Cardinality(SlotHolders) = connectionLimit
    /\ Cardinality(SlotHolders) <= connectionLimit

\* C15 witness: under a limit of one, the second connection holds the slot the
\* first has released
C15_Witness ==
  /\ connectionLimit = 1
  /\ sem = 0
  /\ wk[1].pc = "done"
  /\ SlotHolders = {2}

\* the workers that serve a connection: created, and still in the request loop
Serving == {w \in Workers : wk[w].pc # "unborn" /\ ~Left(w)}

\* with as many connections being served as the limit allows, the acceptor
\* stands at sem_wait with no slot to take, and a connection with no worker
\* has had nothing read from it or sent to it
BlockedWhenFull ==
  (connectionLimit > 0 /\ Cardinality(Serving) = connectionLimit) =>
    /\ accPc = "sem_wait"
    /\ sem = 0
    /\ \A w \in Workers : wk[w].pc = "unborn" => trace[w] = <<>>

\* C16: under a finite connectionLimit L, while L connections are being served
\* the acceptor admits no further connection: no worker is created for it and
\* nothing is read from it or sent to it; and once a slot is free at sem_wait
\* (a worker has left), the next waiting connection gets its worker.
C16_AdmissionBackpressure ==
  /\ []BlockedWhenFull
  /\ \A k \in Workers :
       (connectionLimit > 0 /\ accepted = k - 1 /\ accPc = "sem_wait" /\ sem > 0)
         ~> (wk[k].pc # "unborn")

\* C16 witness: under a limit of one, the second connection is being served
\* after the first worker has left its loop
C16_Witness ==
  /\ connectionLimit = 1
  /\ Left(1)
  /\ Serving = {2}

\* C17: with connectionLimit = 0 there is no semaphore: the acceptor never
\* stands at sem_wait, no step of the acceptor or of a worker changes a
\* semaphore, and the acceptor waits only in accept (and for the stats mutex),
\* however many connections are being served.
C17_NoSemaphoreWithoutLimit ==
  /\ [](connectionLimit = 0 =>
          /\ accPc \in {"accept", "stats_lock", "stats_inc", "create"}
          /\ sem = 0)
  /\ [][connectionLimit = 0 => sem' = sem]_vars

\* C17 witness: without a limit, every connection of the run is being served
\* at once and the acceptor is back in accept
C17_Witness ==
  /\ connectionLimit = 0
  /\ Serving = Workers
  /\ accPc = "accept"

(* ---------------------------- length checks ---------------------------- *)
IsSizeRead(e) == (IsRead(e, "size1") \/ IsRead(e, "size2")) /\ Len(e.bytes) = 4

\* the values of the maxsize argument that configure the limit in force
MaxSizeArgs == {arg \in {U32(0), maxSize} : parse_maxSize(arg) = maxSize}

\* C18: for a declared length n of a first or second image and a maxsize
\* argument m: n = 0 is answered 'image is 0 bytes' whatever m is; with m > 0 a
\* length n > 0 is answered 'image too large' exactly when n > m (n = m is
\* accepted); with m = 0 no length is answered 'image too large'. An accepted
\* length is answered by neither and the worker goes on to read the image.
C18_LengthCheck ==
  \A w \in Workers : \A i \in Where(trace[w], IsSizeRead) : \A m \in MaxSizeArgs :
    LET n == le32toh(trace[w][i].bytes) IN
      IF n = U32(0)
        THEN i < Len(trace[w]) /\ trace[w][i + 1] = FrameOf(3, "image is 0 bytes", <<>>)
      ELSE IF m # U32(0) /\ Gt32(n, m)
        THEN i < Len(trace[w]) /\ trace[w][i + 1] = FrameOf(3, "image too large", <<>>)
      ELSE IF i = Len(trace[w])
        THEN wk[w].pc \in {"read_image", "create_replacement_read"}
                /\ n \in {wk[w].imageOneSize, wk[w].imageTwoSize}
      ELSE IsRead(trace[w][i + 1], "image1") \/ IsRead(trace[w][i + 1], "image2")

\* C18 witness: under maxsize 2 a length of exactly 2 was accepted for the
\* second image and the worker went on to read that image
C18_Witness ==
  \E w \in Workers : \E i \in Where(trace[w], IsSizeRead) :
    /\ i < Len(trace[w])
    /\ maxSize = U32(2)
    /\ trace[w][i] = ReadEv("size2", <<2, 0, 0, 0>>)
    /\ IsRead(trace[w][i + 1], "image2")

(* ---------------------------- second image ----------------------------- *)
\* the reply the rules of the first image call for when applied to what was
\* read of the second image: "" while its length, payload and decoding are fine
SecondFailure(s) ==
  IF Len(Arrival(s, "size2")) < 4 THEN "invalid message"
  ELSE IF le32toh(Arrival(s, "size2")) = U32(0) THEN "image is 0 bytes"
  ELSE IF Gt32(le32toh(Arrival(s, "size2")), maxSize) THEN "image too large"
  ELSE IF ~HasRead(s, "image2") THEN ""
  ELSE IF Gt32(le32toh(Arrival(s, "size2")), U32(Len(Arrival(s, "image2"))))
    THEN "invalid message"
  ELSE IF Arrival(s, "image2")[1] = 0 THEN "invalid image"
  ELSE ""

\* the events of a request that are neither reads nor faults of the machine
RepliesOf(s) == SelectSeq(s, LAMBDA e : e.ev \notin {"read", "fault"})

\* C19: a replacement request whose second image has a fault is answered with
\* the operation-3 frame the same fault in the first image gets: 'invalid
\* message' for a short length or payload, 'image is 0 bytes' for length 0,
\* 'image too large' for a length over maxSize, 'invalid image' when the codec
\* rejects it; the socket is shut down and closed, the worker leaves its loop,
\* and faceReplacements is not incremented for the request.
C19_SecondImageFaults ==
  \A w \in Workers :
    \A i \in {j \in Starts(trace[w]) : HasRead(Seg(trace[w], j), "size2")} :
      LET s == Seg(trace[w], i) IN
        SecondFailure(s) # "" =>
          /\ i \notin Served(trace[w], 1)
          /\ wk[w].rep = Cardinality(Served(trace[w], 1))
          /\ stats.faceReplacements = U32(wk[w].rep)
          /\ SegEnd(trace[w], i) = Len(trace[w])
          /\ IF wk[w].pc \in {"create_replacement_lock", "create_replacement_write",
                               "create_replacement_load"}
               THEN RepliesOf(s) = <<>> /\ SecondFailure(s) = "invalid image"
               ELSE /\ RepliesOf(s)
                         = <<FrameOf(3, SecondFailure(s), <<>>), ShutdownEv, CloseEv>>
                    /\ trace[w][Len(trace[w])] = CloseEv
                    /\ Left(w)

\* C19 witness: after a served replacement, a replacement whose second image
\* the codec rejects was answered and the worker has ended
C19_Witness ==
  \E w \in Workers :
    /\ wk[w].pc = "done"
    /\ wk[w].rep = 1
    /\ \E k \in 1..Len(trace[w]) : trace[w][k] = ReadEv("image2", <<0>>)
    /\ ~HasFault(trace[w])
    /\ trace[w][Len(trace[w]) - 2] = FrameOf(3, "invalid image", <<>>)

(* ----------------------------- the request ----------------------------- *)
\* the request the protocol lays out for the inputs of the client
WellFramed(given, imageOne, imageTwo) ==
  LET first == <<Store(<<0, 0>>, Magic), Store(<<0, 4>>, <<IF given THEN 1 ELSE 0>>),
                 Store(<<0, 5>>, htole32(imageOne.length)), Memcpy(<<0, 9>>, imageOne)>>
      second == <<Store(AddSize(<<0, 9>>, imageOne.length), htole32(imageTwo.length)),
                  Memcpy(AddSize(<<0, 13>>, imageOne.length), imageTwo)>>
  IN Buffer(IF given THEN first \o second ELSE first,
            IF given THEN AddSize(AddSize(<<0, 13>>, imageOne.length), imageTwo.length)
            ELSE AddSize(<<0, 9>>, imageOne.length))

\* a length fits the 32-bit field when it is its own low 32 bits
Fits32(length) == uint32_t(length) = length

\* C20: the client builds a request: its operation byte is 1 if --replacefile
\* was given and 0 if not, its length is 9 + len1 (+ 4 + len2 for a
\* replacement), and each length field is the 32-bit little-endian encoding of
\* the length of the payload that follows it.
C20_RequestLayout ==
  /\ client.pc # "killed"
  /\ client.pc \in {"send", "recieve_response"} =>
       /\ Fits32(client.imageOne.length)
       /\ client.params.replaceFileGiven => Fits32(client.imageTwo.length)
       /\ client.request
            = WellFramed(client.params.replaceFileGiven, client.imageOne, client.imageTwo)

(* ------------------------ the request on the wire ---------------------- *)
\* the request of the client is valid: each image it carries has a length
\* from 1 to the limit in force
ValidRequest ==
  /\ client.imageOne.length # U32(0)
  /\ ~Gt32(client.imageOne.length, maxSize)
  /\ client.params.replaceFileGiven =>
       /\ client.imageTwo.length # U32(0)
       /\ ~Gt32(client.imageTwo.length, maxSize)

\* what the worker has read of a request is what the client encoded
DecodedAsEncoded(s) ==
  /\ s[1].bytes = Magic
  /\ HasRead(s, "operation") =>
       Arrival(s, "operation") = <<IF client.params.replaceFileGiven THEN 1 ELSE 0>>
  /\ HasRead(s, "size1") =>
       /\ Len(Arrival(s, "size1")) = 4
       /\ le32toh(Arrival(s, "size1")) = client.imageOne.length
  /\ HasRead(s, "image1") => Arrival(s, "image1") = client.imageOne.data
  /\ HasRead(s, "size2") =>
       /\ client.params.replaceFileGiven
       /\ Len(Arrival(s, "size2")) = 4
       /\ le32toh(Arrival(s, "size2")) = client.imageTwo.length
  /\ HasRead(s, "image2") => Arrival(s, "image2") = client.imageTwo.data

\* C21: for a valid request of the client (1 <= len1 <= cap, and for a
\* replacement 1 <= len2 <= cap), the worker's reads decode the bytes the
\* client encoded into the same operation, lengths and payloads, and when the
\* worker is done with the request it has read the whole of it (for a
\* replacement the second length and payload too): exactly the bytes of the
\* request, with nothing left for a later read but the client's close.
C21_RoundTrip ==
  (ValidRequest /\ trace[1] # <<>> /\ ~HasFault(trace[1])) =>
    LET s == Seg(trace[1], 1) IN
      /\ DecodedAsEncoded(s)
      /\ Over(1, 1) =>
           /\ FullyRead(s)
           /\ Consumed(s) = Len(Bytes(client.sent))
      /\ \A i \in Starts(trace[1]) : i > 1 => trace[1][i].bytes = <<>>

(* ----------------------------- the response --------------------------- *)
\* a response holds a complete frame: the magic, an operation byte, a
\* little-endian length and at least that many bytes of payload
CompleteFrame(r) ==
  /\ Len(r) >= 9
  /\ SubSeq(r, 1, 4) = <<49, 114, 16, 35>>
  /\ ~Gt32(le32toh(SubSeq(r, 6, 9)), U32(Len(r) - 9))

PayloadOf(r) == SubSeq(r, 10, 9 + le32toh(SubSeq(r, 6, 9))[2])

\* C22: the client's exit status is decided by the one response it reads: 9
\* (with the communication error on stderr and nothing else written) exactly
\* when prefix, operation, length or payload is cut short, the prefix is not
\* the magic, or the operation is neither 2 nor 3; 11 for a complete
\* operation-3 frame, with the payload between quotes on stderr; 0 for a
\* complete operation-2 frame, with exactly the payload written to the output
\* file if one was named and to stdout if not. A reply that is not a
\* well-formed frame (such as the canned file) gives neither 0 nor 11.
C22_ExitStatusFromResponse ==
  client.pc = "exited" =>
    LET r == client.response
        out == client.out
    IN /\ out.status \in {0, 9, 11}
       /\ out.status = 9 <=> (~CompleteFrame(r) \/ r[5] \notin {2, 3})
       /\ out.status = 9 =>
            out = [status |-> 9, stdout |-> <<>>, file |-> <<>>,
                   stderr |-> <<"uqfaceclient: unexpected communication error\n">>]
       /\ out.status = 11 =>
            /\ r[5] = 3
            /\ out = [status |-> 11, stdout |-> <<>>, file |-> <<>>,
                      stderr |-> <<"uqfaceclient: received the following error message: \"",
                                   PayloadOf(r), "\"\n">>]
       /\ out.status = 0 =>
            /\ r[5] = 2
            /\ out = [status |-> 0, stderr |-> <<>>,
                      stdout |-> IF client.params.outputFileNameGiven THEN <<>>
                                 ELSE PayloadOf(r),
                      file |-> IF client.params.outputFileNameGiven THEN PayloadOf(r)
                               ELSE <<>>]

\* C22 witness: the client has exited with 11 on an operation-3 frame whose
\* two bytes of payload are followed by one more byte
C22_Witness ==
  /\ client.pc = "exited"
  /\ client.response = <<49, 114, 16, 35, 3, 2, 0, 0, 0, 7, 8, 9>>
  /\ client.out.status = 11
  /\ client.out.stderr[2] = <<7, 8>>

(* --------------------------- the command line -------------------------- *)
\* a decimal string: digits, after an optional '+'
IsDecimal(a) ==
  /\ a \notin {<<>>, <<"+">>}
  /\ \A k \in 1..Len(a) : isdigit(a[k]) \/ (k = 1 /\ a[k] = "+")

\* the usage error: the usage line on stderr, exit code 19, no socket opened
UsageError ==
  /\ boot.pc = "exited"
  /\ boot.status = 19
  /\ boot.stderr = <<"Usage: ./uqfacedetect connectionlimit maxsize [portnumber]\n">>
  /\ boot.listen = ""

\* C23: once the command line is parsed, the server has gone on only if the
\* connectionLimit argument is a decimal string of a value from 0 to 10000;
\* for every decimal string of a value over 10000, values of 2^32 and more
\* included, it has printed the usage line and exited with 19 without opening
\* a socket.
C23_LimitAtMost10000 ==
  (boot.pc # "parse_command_line" /\ Len(boot.argv) >= 2) =>
    LET a == Arg(boot.argv, 1) IN
      /\ boot.status # 19 => IsDecimal(a) /\ ~Gt32(Decimal(a), <<0, 10000>>)
      /\ (IsDecimal(a) /\ Gt32(Decimal(a), <<0, 10000>>)) => UsageError

\* the first two arguments are ones the server accepts: a connection limit of
\* at most 10000 and a maxsize of at most 2^32 - 1
LimitAndSizeAccepted ==
  /\ Len(boot.argv) \in {3, 4}
  /\ IsDecimal(Arg(boot.argv, 1)) /\ ~Gt32(Decimal(Arg(boot.argv, 1)), <<0, 10000>>)
  /\ IsDecimal(Arg(boot.argv, 2)) /\ ~Gt32(Decimal(Arg(boot.argv, 2)), UINT32_MAX)

\* startup goes on without the usage error, and a socket it binds is bound to
\* a port of the kernel's choice
StartsOnEphemeralPort ==
  /\ boot.status # 19
  /\ boot.params.portnum = <<"0">>
  /\ boot.listen \in {"", "ephemeral"}
  /\ boot.pc = "new_connection" => boot.listen = "ephemeral"

\* C24 as stated: with the port argument omitted, empty or "0", startup goes
\* on to bind a port of the kernel's choice, and there is no usage error.
C24_NoPortMeansEphemeral ==
  (boot.pc # "parse_command_line" /\ LimitAndSizeAccepted) =>
    ((Len(boot.argv) = 3 \/ Arg(boot.argv, 3) \in {<<>>, <<"0">>}) => StartsOnEphemeralPort)

\* C24, amended: with the port argument omitted or "0", startup goes on to
\* bind a port of the kernel's choice, and there is no usage error; an empty
\* port argument gets the usage line and exit code 19.
C24_OmittedOrZeroMeansEphemeral ==
  (boot.pc # "parse_command_line" /\ LimitAndSizeAccepted) =>
    /\ (Len(boot.argv) = 3 \/ Arg(boot.argv, 3) = <<"0">>) => StartsOnEphemeralPort
    /\ (Len(boot.argv) = 4 /\ Arg(boot.argv, 3) = <<>>) => UsageError

\* C24 witness: the server listens on a port of the kernel's choice after a
\* command line with the port argument "0" and a connection limit of 10000
C24_Witness ==
  /\ boot.pc = "new_connection"
  /\ boot.listen = "ephemeral"
  /\ Len(boot.argv) = 4
  /\ Arg(boot.argv, 3) = <<"0">>
  /\ Arg(boot.argv, 1) = <<"1", "0", "0", "0", "0">>

(* -------------------------- repeated requests -------------------------- *)
IsReadEv(e) == e.ev = "read"

\* the bytes of a request as the worker read them, field by field
RequestOf(s) == SelectSeq(s, IsReadEv)

\* a whole detection request was read
IsDetection(s) ==
  /\ HasRead(s, "image1")
  /\ Arrival(s, "operation") = <<0>>
  /\ U32(Len(Arrival(s, "image1"))) = le32toh(Arrival(s, "size1"))

\* C25: of two identical detection requests read on one connection, the later
\* is answered, once the worker is done with it, with the same operation-2
\* frame as the earlier, whatever was requested before and between them on the
\* connection and whatever the other connections do meanwhile (barring a
\* failure of the scratch file or of the detector storage).
C25_SameRequestSameResponse ==
  \A w \in Workers : \A i, j \in Starts(trace[w]) :
    LET s == Seg(trace[w], i)
        t == Seg(trace[w], j)
    IN (i < j /\ IsDetection(s) /\ IsDetection(t) /\ RequestOf(s) = RequestOf(t)
          /\ ~HasFault(t) /\ Over(w, j)) =>
         /\ Len(SendsOf(s)) = 1
         /\ IsImageFrame(SendsOf(s)[1])
         /\ SendsOf(t) = SendsOf(s)

\* C25 witness: on one connection a replacement, then the same detection
\* twice, all answered, while the worker of another connection is at work on
\* a request of its own
C25_Witness ==
  \E w \in Workers : \E v \in Workers \ {w} :
    /\ wk[w].pc = "check_prefix"
    /\ wk[w].rep = 1
    /\ wk[w].det = 2
    /\ Arrival(Seg(trace[w], 1), "operation") = <<1>>
    /\ \E i, j \in Starts(trace[w]) :
         i < j /\ IsDetection(Seg(trace[w], i))
               /\ RequestOf(Seg(trace[w], i)) = RequestOf(Seg(trace[w], j))
    /\ wk[v].pc = "output_face_detection"

(* ------------------------------ the reporter --------------------------- *)
\* the last report is whole and shows the five counters in their order
WholeReport(n) ==
  /\ Len(report) >= n
  /\ Len(report[n]) = 5

\* C26: no SIGHUP ends the process or is taken by another thread than the
\* reporter in sigwait; a report just printed shows currClients, prevClients,
\* faceDetections, faceReplacements and badRequests in this order; and under
\* a scheduler fair to the reporter and to the holders of the stats mutex,
\* the n-th SIGHUP leads to the n-th five-line report, whatever the workers
\* and their clients do or fail to do.
C26_SighupLeadsToReport ==
  /\ [](repPc # "killed")
  /\ [][(pending /\ ~pending') => (repPc = "sigwait" /\ repPc' = "stats_lock")]_vars
  /\ [](repPc = "unlock" =>
          report[Len(report)] = <<stats.currClients, stats.prevClients, stats.faceDetections,
                                  stats.faceReplacements, stats.badRequests>>)
  /\ \A n \in 1..MaxSighups : (sighups = n) ~> WholeReport(n)

\* C26 witness: a report is printed in full while one worker stands in the
\* send of its response with the file mutex and another waits for that mutex
C26_Witness ==
  /\ WholeReport(1)
  /\ repPc = "unlock"
  /\ \E v, w \in Workers :
       /\ wk[v].pc = "output_face_detection_send"
       /\ wk[w].pc = "create_frame"

(* ---------------------------- the scratch file ------------------------- *)
\* the request a worker is at work on: the one its last read of a prefix began
Current(t) == Seg(t, CHOOSE i \in Starts(t) : \A j \in Starts(t) : j <= i)

\* the request that position k of a trace belongs to
RequestAt(t, k) ==
  Seg(t, CHOOSE i \in Starts(t) : i <= k /\ \A j \in Starts(t) : j <= k => j <= i)

\* C27: a worker about to decode the scratch file holds the file mutex and the
\* file holds the bytes it wrote itself, for the first image and for the
\* second; the frame it works on is decoded from the image it read; a worker
\* about to send holds the file mutex and the file holds its own encoding of
\* the answer to its own request; and every operation-2 frame sent carries
\* the answer to the request it was sent for.
C27_ScratchFileIsOwn ==
  \A w \in Workers :
    /\ wk[w].pc = "create_frame_load" => fileLock = w /\ scratch = wk[w].image
    /\ wk[w].pc \in {"find_faces", "find_faces_detect"} =>
         wk[w].frame = Arrival(Current(trace[w]), "image1")
    /\ wk[w].pc = "create_replacement_load" =>
         /\ fileLock = w
         /\ scratch = wk[w].replace
         /\ scratch = Arrival(Current(trace[w]), "image2")
    /\ wk[w].pc = "output_face_detection_send" =>
         fileLock = w /\ scratch = AnswerOf(Current(trace[w]))
    /\ \A k \in Where(trace[w], IsImageFrame) :
         trace[w][k].bytes = AnswerOf(RequestAt(trace[w], k))

\* C27 witness: a worker is about to decode its own image from the scratch
\* file, which an earlier request of another connection had left holding an
\* answer, while the worker of that connection waits to write the file
C27_Witness ==
  \E v, w \in Workers :
    /\ wk[w].pc = "create_frame_load"
    /\ wk[v].pc = "create_frame"
    /\ wk[v].det = 1
    /\ wk[v].image # scratch

(* ------------------- the second image and the first -------------------- *)
\* the worker is decoding the first image or has it in the detector
DecodesOrDetects(w) ==
  wk[w].pc \in {"create_frame", "create_frame_write", "create_frame_load",
                "find_faces", "find_faces_detect"}

\* the length and payload of the second image were read and pass the checks
\* of length and payload
SecondImageRead(s) ==
  /\ HasRead(s, "size2")
  /\ HasRead(s, "image2")
  /\ SecondFailure(s) \in {"", "invalid image"}

\* C28: for a replacement request, the worker has read and checked the length
\* and payload of the second image before it decodes the first image or runs
\* the detector on it, and a reply that follows the read of the whole first
\* image follows a read of the second length.
C28_SecondImageReadFirst ==
  \A w \in Workers :
    /\ (wk[w].operation = 1 /\ DecodesOrDetects(w)) => SecondImageRead(Current(trace[w]))
    /\ \A i \in Starts(trace[w]) :
         LET s == Seg(trace[w], i) IN
           (HasRead(s, "image1") /\ Arrival(s, "operation") = <<1>>
              /\ U32(Len(Arrival(s, "image1"))) = le32toh(Arrival(s, "size1"))
              /\ SendsOf(s) # <<>>) =>
             HasRead(s, "size2")

(* ------------------ the file mutex and the client's socket ------------- *)
\* worker v waits in pthread_mutex_lock(&fileLock)
WaitsForFile(v) ==
  /\ wk[v].pc \in {"create_frame", "create_replacement_lock", "output_face_detection"}
  /\ fileLock # Free

\* worker w is yet to send its image frame, to a client that does not read
SendStalled(w) == wk[w].pc = "output_face_detection_send" /\ peer[w] = "stalled"

\* C29: a worker has released the file mutex before it writes its response
\* frame, so no worker waits for the file mutex while its holder is yet to
\* write an image frame to a client that has stopped reading.
C29_StalledClientBlocksNobody ==
  \A w \in Workers : \A v \in Workers \ {w} :
    ~(SendStalled(w) /\ fileLock = w /\ WaitsForFile(v))

(* ------------------------- writes that fail ---------------------------- *)
IsFailedSend(e) == e = FaultEv("send")

\* C30: once a write of a response to the socket of a worker has failed, the
\* worker neither reads from nor writes to that socket again, and the requests
\* it has counted as detections or replacements are no more than the image
\* frames it has sent.
C30_FailedWriteEndsService ==
  \A w \in Workers :
    /\ \A k \in Where(trace[w], IsFailedSend) : \A j \in (k + 1)..Len(trace[w]) :
         trace[w][j].ev \notin {"read", "send"} /\ ~IsFailedSend(trace[w][j])
    /\ wk[w].det + wk[w].rep <= Len(SelectSeq(trace[w], IsImageFrame))

(* ----------------------- the buffers of a request ---------------------- *)
\* C31: a worker that has left its loop has released every buffer its requests
\* created, each exactly once: the raw first image, the decoded frame, the
\* grey image, the detector storage, the raw and the decoded second image;
\* none is still alive and none was released when it was not alive.
C31_BuffersReleasedOnce ==
  \A w \in Workers : Left(w) => wk[w].live = {} /\ wk[w].twice = {}

(* ------------------------- the socket's close -------------------------- *)
IsClose(e) == e = CloseEv

\* C32: a worker closes the socket of its connection exactly once, before it
\* releases its admission slot: it has closed the socket if and only if it has
\* left its loop, the close is the last thing it did on the socket, and no
\* worker ends with the socket open.
C32_SocketClosedOnce ==
  \A w \in Workers :
    /\ Cardinality(Where(trace[w], IsClose)) = (IF Left(w) THEN 1 ELSE 0)
    /\ \A k \in Where(trace[w], IsClose) : k = Len(trace[w])

\* C32 witness: a worker has ended after the reply that no faces were found,
\* under a limit, and its slot is back
C32_Witness ==
  \E w \in Workers :
    /\ wk[w].pc = "done"
    /\ Len(trace[w]) >= 3
    /\ SubSeq(trace[w], Len(trace[w]) - 2, Len(trace[w])) = no_faces
    /\ connectionLimit = 1
    /\ sem = 1

(* ----------------------- mutexes on every path ------------------------- *)
\* the worker is in a read of its socket
ReadsSocket(w) ==
  wk[w].pc \in {"check_prefix", "check_operation", "determine_image_size", "read_image",
                "create_replacement", "create_replacement_read"}

\* C33: a worker has released every mutex it acquired by the time control
\* leaves the acquiring function: it holds no mutex while it reads its socket,
\* when it has left its loop (but for the stats mutex inside
\* update_client_stats) and when it has ended.
C33_NoMutexLeftHeld ==
  \A w \in Workers :
    /\ (ReadsSocket(w) \/ wk[w].pc \in {"exit", "update_client_stats", "done"}) =>
         (fileLock # w /\ cascadeLock # w /\ statsLock # w)
    /\ wk[w].pc = "update_client_stats_dec" => (fileLock # w /\ cascadeLock # w)

(* ---------------------- currClients never wraps ------------------------ *)
\* no worker is alive and the acceptor waits for a slot or a connection
Quiet ==
  /\ \A w \in Workers : wk[w].pc \in {"unborn", "done"}
  /\ accPc \in {"sem_wait", "accept"}

\* C34: the unsigned currClients never wraps below zero: a worker about to
\* decrement it finds it at least 1, it never exceeds the connections accepted,
\* and it is 0 when no worker is alive and the acceptor is idle.
C34_CurrClientsNoUnderflow ==
  /\ \A w \in Workers :
       wk[w].pc = "update_client_stats_dec" => Gt32(stats.currClients, U32(0))
  /\ ~Gt32(stats.currClients, U32(accepted))
  /\ Quiet => stats.currClients = U32(0)

\* C34 witness: a worker is about to decrement currClients while the acceptor
\* has counted the next connection and not yet created its worker
C34_Witness ==
  \E w \in Workers :
    /\ wk[w].pc = "update_client_stats_dec"
    /\ accPc = "create"
    /\ stats.currClients = U32(2)

====
